---------------------------- MODULE Spec2Model ----------------------------
(***************************************************************************)
(* A model of the measurement-table functions of petab.v1                  *)
(* (src/petab/v1/measurements.py) and of the parameter mapping built on    *)
(* them.  Every function of the library is a pure function of its          *)
(* arguments, so each specification below draws the arguments from a       *)
(* bounded set in its initial predicate and has one action per function    *)
(* that is called on them; `op` names the last function called and `ret`   *)
(* holds what it returned or raised.                                       *)
(*                                                                         *)
(* Python values are modelled as records tagged by their type:             *)
(*   None                  [t |-> "None"]                                  *)
(*   float('nan')          [t |-> "nan"]                                   *)
(*   a finite float        [t |-> "float", num |-> n, exp |-> e]           *)
(*                         (the number n * 10^-e)                          *)
(*   a str                 [t |-> "str", s |-> <<"a", ";", "1">>]          *)
(*                         (the sequence of its characters)                *)
(***************************************************************************)
EXTENDS Integers, Sequences, FiniteSets, TLC

VARIABLES
    list_string,      \* argument of split_parameter_replacement_list
    measurement_df,   \* the measurement table (a sequence of rows)
    observable_df,    \* the observable table
    condition,        \* argument of get_rows_for_condition
    problem,          \* condition table, parameter table and model
    op,               \* the function called last ("" before any call)
    ret,              \* what that call returned or raised
    pool              \* state of the thread pool of the parallel mapping

vars == <<list_string, measurement_df, observable_df, condition, problem,
          op, ret, pool>>

---------------------------------------------------------------------------
(* Python values *)

None == [t |-> "None"]

NaN == [t |-> "nan"]

Float(n, e) == [t |-> "float", num |-> n, exp |-> e]

Str(s) == [t |-> "str", s |-> s]

EmptyStr == Str(<<>>)

\* isinstance(x, numbers.Number)
IsNumber(x) == x.t \in {"float", "nan"}

\* what a call produced: a returned value or a raised exception
Returned(v) == [raised |-> "", value |-> v]

Raised(exc) == [raised |-> exc, value |-> None]

NotCalled == [raised |-> "", value |-> None]

---------------------------------------------------------------------------
(* Strings: sequences over a small alphabet *)

MaxStrLen == 4

\* letters (among them those of "nan"), digits, the decimal point, a blank
\* and the delimiter of replacement lists
Letters == {"a", "c", "k", "n", "o", "p"}

Digits == {"0", "1", "2"}

Whitespace == {" "}

PARAMETER_SEPARATOR == ";"

Chars == Letters \cup Digits \cup Whitespace \cup {".", PARAMETER_SEPARATOR}

\* the characters of the strings that are enumerated as replacement lists
SplitChars == {"a", "n", "1", ".", " ", PARAMETER_SEPARATOR}

\* ord(c)
CharCode(c) ==
    CASE c = " " -> 32 [] c = "." -> 46 [] c = "0" -> 48 [] c = "1" -> 49 [] c = "2" -> 50
      [] c = ";" -> 59 [] c = "a" -> 97 [] c = "c" -> 99 [] c = "k" -> 107
      [] c = "n" -> 110 [] c = "o" -> 111 [] c = "p" -> 112

\* s1 < s2 for two str: lexicographic by code point
RECURSIVE SeqLess(_, _)
SeqLess(s1, s2) ==
    IF s2 = <<>> THEN FALSE
    ELSE IF s1 = <<>> THEN TRUE
    ELSE IF Head(s1) # Head(s2) THEN CharCode(Head(s1)) < CharCode(Head(s2))
    ELSE SeqLess(Tail(s1), Tail(s2))

RECURSIVE SeqsUpTo(_, _)
SeqsUpTo(S, n) ==
    IF n = 0 THEN {<<>>}
    ELSE LET shorter == SeqsUpTo(S, n - 1)
         IN  shorter \cup {Append(s, c) : s \in {x \in shorter : Len(x) = n - 1}, c \in S}

\* str.split(delim): the items between the delimiters, empty ones included
RECURSIVE SplitFrom(_, _, _)
SplitFrom(s, delim, cur) ==
    IF s = <<>> THEN <<cur>>
    ELSE IF Head(s) = delim
         THEN <<cur>> \o SplitFrom(Tail(s), delim, <<>>)
         ELSE SplitFrom(Tail(s), delim, Append(cur, Head(s)))

split(s, delim) == SplitFrom(s, delim, <<>>)

\* str.strip(): leading and trailing whitespace removed
RECURSIVE lstrip(_)
lstrip(s) ==
    IF s # <<>> /\ Head(s) \in Whitespace THEN lstrip(Tail(s)) ELSE s

RECURSIVE rstrip(_)
rstrip(s) ==
    IF s # <<>> /\ s[Len(s)] \in Whitespace
    THEN rstrip(SubSeq(s, 1, Len(s) - 1))
    ELSE s

strip(s) == rstrip(lstrip(s))

\* the digits of s read as a decimal number
RECURSIVE DigitsValue(_)
DigitsValue(s) ==
    IF s = <<>> THEN 0
    ELSE 10 * DigitsValue(SubSeq(s, 1, Len(s) - 1))
         + (CASE s[Len(s)] = "1" -> 1 [] s[Len(s)] = "2" -> 2 [] OTHER -> 0)

\* float(s) of a str: digits with at most one decimal point, or "nan";
\* blanks around the literal are ignored.  FALSE stands for the ValueError.
ParsesAsFloat(s) ==
    LET x == strip(s)
        points == {i \in 1..Len(x) : x[i] = "."}
    IN  \/ x = <<"n", "a", "n">>
        \/ /\ \A i \in 1..Len(x) : x[i] \in Digits \cup {"."}
           /\ Cardinality(points) <= 1
           /\ \E i \in 1..Len(x) : x[i] \in Digits

FloatOfStr(s) ==
    LET x == strip(s)
        points == {i \in 1..Len(x) : x[i] = "."}
        p == IF points = {} THEN Len(x) + 1 ELSE CHOOSE i \in points : TRUE
        ds == SubSeq(x, 1, p - 1) \o SubSeq(x, p + 1, Len(x))
    IN  IF x = <<"n", "a", "n">> THEN NaN
        ELSE Float(DigitsValue(ds), Len(x) - p + (IF points = {} THEN 1 ELSE 0))

\* core.to_float_if_float: float(x) if that succeeds, else x itself
to_float_if_float(x) ==
    CASE IsNumber(x) -> x
      [] x.t = "str" /\ ParsesAsFloat(x.s) -> FloatOfStr(x.s)
      [] OTHER -> x

\* lint.is_valid_identifier: ^[a-zA-Z_]\w*$
is_valid_identifier(x) ==
    /\ x.t = "str"
    /\ x.s # <<>>
    /\ x.s[1] \in Letters
    /\ \A i \in 1..Len(x.s) : x.s[i] \in Letters \cup Digits

---------------------------------------------------------------------------
(* measurements.split_parameter_replacement_list *)

convert_and_check(x) ==
    LET y == to_float_if_float(x)
    IN  IF IsNumber(y) THEN Returned(y)
        ELSE IF is_valid_identifier(y) THEN Returned(y)
        ELSE Raised("ValueError")

\* the mutant: items are not stripped before they are converted
split_items_unstripped(s, delim) == split(s, delim)

split_items(s, delim) ==
    LET parts == split(s, delim)
    IN  [i \in 1..Len(parts) |-> strip(parts[i])]

split_parameter_replacement_list(x) ==
    IF x = None \/ x = EmptyStr THEN Returned(<<>>)
    ELSE IF IsNumber(x)
    THEN IF x = NaN THEN Returned(<<>>) ELSE Returned(<<x>>)
    ELSE LET result == split_items(x.s, PARAMETER_SEPARATOR)
             conv == [i \in 1..Len(result) |-> convert_and_check(Str(result[i]))]
         IN  IF \E i \in 1..Len(conv) : conv[i].raised # ""
             THEN Raised("ValueError")
             ELSE Returned([i \in 1..Len(conv) |-> conv[i].value])

\* the cells a measurement table can hold in a replacement-list column
SplitInputs ==
    {None, NaN, Float(1, 0), Float(11, 1)}
        \cup {Str(s) : s \in SeqsUpTo(SplitChars, MaxStrLen)}

Unused == <<>>

InitSplit ==
    /\ list_string \in SplitInputs
    /\ measurement_df = Unused
    /\ observable_df = Unused
    /\ condition = Unused
    /\ problem = Unused
    /\ op = ""
    /\ ret = NotCalled
    /\ pool = Unused

CallSplit ==
    /\ op = ""
    /\ op' = "split_parameter_replacement_list"
    /\ ret' = split_parameter_replacement_list(list_string)
    /\ UNCHANGED <<list_string, measurement_df, observable_df, condition,
                   problem, pool>>

NextSplit == CallSplit

SpecSplit == InitSplit /\ [][NextSplit]_vars

\* The items of a replacement list, stated by position: the k-th item lies
\* between the (k-1)-th and the k-th delimiter.
DelimPositions(s) == {i \in 1..Len(s) : s[i] = PARAMETER_SEPARATOR}

DelimAt(s, k) ==
    IF k = 0 THEN 0
    ELSE IF k > Cardinality(DelimPositions(s)) THEN Len(s) + 1
    ELSE CHOOSE i \in DelimPositions(s) :
            Cardinality({j \in DelimPositions(s) : j <= i}) = k

ItemAt(s, k) == SubSeq(s, DelimAt(s, k - 1) + 1, DelimAt(s, k) - 1)

Trimmed(x) ==
    LET solid == {i \in 1..Len(x) : x[i] \notin Whitespace}
    IN  IF solid = {} THEN <<>>
        ELSE SubSeq(x, CHOOSE i \in solid : \A j \in solid : i <= j,
                       CHOOSE i \in solid : \A j \in solid : i >= j)

\* C7: split_parameter_replacement_list returns [] for None, "" and NaN and
\* [x] for any other number x; for a string it returns one entry per
\* delimiter-separated item, in input order, each the float the stripped
\* item stands for or else the stripped item itself, which then is a valid
\* identifier; it raises ValueError, returning nothing, exactly when some
\* stripped item is neither a number nor a valid identifier (an empty item
\* included).
C7_SplitReplacementList ==
    op = "split_parameter_replacement_list" =>
        LET x == list_string
            n == Cardinality(DelimPositions(x.s)) + 1
            item(k) == Trimmed(ItemAt(x.s, k))
            good(k) == ParsesAsFloat(item(k)) \/ is_valid_identifier(Str(item(k)))
        IN  /\ x \in {None, EmptyStr, NaN} => ret = Returned(<<>>)
            /\ (IsNumber(x) /\ x # NaN) => ret = Returned(<<x>>)
            /\ (x.t = "str" /\ x # EmptyStr) =>
                 IF \A k \in 1..n : good(k)
                 THEN /\ ret.raised = ""
                      /\ Len(ret.value) = n
                      /\ \A k \in 1..n :
                           \/ /\ ret.value[k].t \in {"float", "nan"}
                              /\ ParsesAsFloat(item(k))
                              /\ ret.value[k] = FloatOfStr(item(k))
                           \/ /\ ret.value[k] = Str(item(k))
                              /\ is_valid_identifier(ret.value[k])
                 ELSE ret = Raised("ValueError")

\* a list of a number and a padded identifier was split into two entries
C7_Witness ==
    /\ op = "split_parameter_replacement_list"
    /\ list_string = Str(<<"1", ";", " ", "a">>)
    /\ ret = Returned(<<Float(1, 0), Str(<<"a">>)>>)

---------------------------------------------------------------------------
(* The measurement table.  A row holds the columns the functions read; the  *)
(* row's position (from 0) is its label in the default RangeIndex.          *)

OBSERVABLE_ID == "observableId"

SIMULATION_CONDITION_ID == "simulationConditionId"

PREEQUILIBRATION_CONDITION_ID == "preequilibrationConditionId"

OBSERVABLE_PARAMETERS == "observableParameters"

NOISE_PARAMETERS == "noiseParameters"

MaxRows == 3

Range(f) == {f[i] : i \in DOMAIN f}

\* pandas isnull / the cells fillna replaces
isnull(x) == x \in {None, NaN}

fillna(x, value) == IF isnull(x) THEN value ELSE x

\* Python's ==, under which NaN equals nothing
PyEq(x, y) == x # NaN /\ y # NaN /\ x = y

\* DataFrame.empty: no rows or no columns
empty(df) == df.rows = <<>> \/ df.columns = {}

\* core.get_notnull_columns: the candidates that are columns of df and are
\* not null in every row
get_notnull_columns(df, candidates) ==
    SelectSeq(candidates,
              LAMBDA col : /\ col \in df.columns
                           /\ ~ \A i \in 1..Len(df.rows) : isnull(df.rows[i][col]))

\* key1 < key2 for two rows of group keys, column by column
RECURSIVE KeyLess(_, _, _)
KeyLess(k1, k2, cols) ==
    IF cols = <<>> THEN FALSE
    ELSE IF k1[Head(cols)] # k2[Head(cols)]
         THEN SeqLess(k1[Head(cols)].s, k2[Head(cols)].s)
         ELSE KeyLess(k1, k2, Tail(cols))

\* a sequence of keys in ascending order
RECURSIVE SortKeys(_, _)
SortKeys(keys, cols) ==
    IF keys = {} THEN <<>>
    ELSE LET least == CHOOSE k \in keys : \A o \in keys \ {k} : KeyLess(k, o, cols)
         IN  <<least>> \o SortKeys(keys \ {least}, cols)

\* the mutant: the table is grouped without fillna(""), and groupby drops
\* every row that has a null key
group_keys_dropna(df, grouping_cols) ==
    {[c \in Range(grouping_cols) |-> df.rows[i][c]] :
        i \in {j \in 1..Len(df.rows) :
                 \A c \in Range(grouping_cols) : ~ isnull(df.rows[j][c])}}

\* measurement_df.fillna("").groupby(grouping_cols).size().reset_index()
\* [grouping_cols]: the distinct keys of the rows
group_keys(df, grouping_cols) ==
    {[c \in Range(grouping_cols) |-> fillna(df.rows[i][c], EmptyStr)] :
        i \in 1..Len(df.rows)}

\* the mutant: the groups are ordered by the preequilibration condition
\* first
get_simulation_conditions_preeq_first(df) ==
    IF empty(df)
    THEN Returned([columns |-> <<SIMULATION_CONDITION_ID>>, rows |-> <<>>])
    ELSE LET grouping_cols ==
                 get_notnull_columns(df, <<SIMULATION_CONDITION_ID,
                                           PREEQUILIBRATION_CONDITION_ID>>)
             sort_cols ==
                 get_notnull_columns(df, <<PREEQUILIBRATION_CONDITION_ID,
                                           SIMULATION_CONDITION_ID>>)
         IN  IF grouping_cols = <<>>
             THEN Raised("ValueError")
             ELSE Returned([columns |-> grouping_cols,
                            rows |-> SortKeys(group_keys(df, grouping_cols),
                                              sort_cols)])

get_simulation_conditions(df) ==
    IF empty(df)
    THEN Returned([columns |-> <<SIMULATION_CONDITION_ID>>, rows |-> <<>>])
    ELSE LET grouping_cols ==
                 get_notnull_columns(df, <<SIMULATION_CONDITION_ID,
                                           PREEQUILIBRATION_CONDITION_ID>>)
         IN  IF grouping_cols = <<>>
             THEN Raised("ValueError")   \* groupby: no group keys passed
             ELSE Returned([columns |-> grouping_cols,
                            rows |-> SortKeys(group_keys(df, grouping_cols),
                                              grouping_cols)])

\* row_filter of get_rows_for_condition: the int 1 it starts as, or a
\* boolean Series with one entry per row
IntFilter == [t |-> "int", v |-> 1]

Mask(m) == [t |-> "mask", v |-> m]

\* (mask & row_filter): and-ing the int 1 into a boolean mask leaves the mask
and_filter(mask, row_filter) ==
    IF row_filter.t = "int" THEN Mask(mask)
    ELSE Mask([i \in DOMAIN mask |-> mask[i] /\ row_filter.v[i]])

\* measurement_df.loc[row_filter, :]: a boolean mask selects the rows it
\* marks; an int is a label, and selects the one row with that label as a
\* Series (KeyError when the index has no such label)
loc(df, row_filter) ==
    IF row_filter.t = "int"
    THEN IF row_filter.v \in 0..(Len(df.rows) - 1)
         THEN Returned([kind |-> "Series", index |-> <<row_filter.v>>])
         ELSE Raised("KeyError")
    ELSE Returned([kind |-> "DataFrame",
                   index |-> SelectSeq([i \in 1..Len(df.rows) |-> i - 1],
                                       LAMBDA l : row_filter.v[l + 1])])

preeq_mask(df, cond) ==
    [i \in 1..Len(df.rows) |->
        PyEq(fillna(df.rows[i][PREEQUILIBRATION_CONDITION_ID], EmptyStr),
             cond[PREEQUILIBRATION_CONDITION_ID])]

\* the mutant: the rows are not filtered by the simulation condition
sim_mask_all(df, cond) == [i \in 1..Len(df.rows) |-> TRUE]

sim_mask(df, cond) ==
    [i \in 1..Len(df.rows) |->
        PyEq(df.rows[i][SIMULATION_CONDITION_ID], cond[SIMULATION_CONDITION_ID])]

\* `cond` is a dict or Series: a function from its keys to their values.  A
\* key of cond that is no column of the table raises KeyError.
get_rows_for_condition(df, cond) ==
    IF (DOMAIN cond \cap {PREEQUILIBRATION_CONDITION_ID, SIMULATION_CONDITION_ID})
           \ df.columns # {}
    THEN Raised("KeyError")
    ELSE LET f1 == IF PREEQUILIBRATION_CONDITION_ID \in DOMAIN cond
                   THEN and_filter(preeq_mask(df, cond), IntFilter)
                   ELSE IntFilter
             f2 == IF SIMULATION_CONDITION_ID \in DOMAIN cond
                   THEN and_filter(sim_mask(df, cond), f1)
                   ELSE f1
         IN  loc(df, f2)

---------------------------------------------------------------------------
(* Measurement tables for the condition functions.  simulationConditionId  *)
(* is a mandatory column and holds condition IDs; the optional             *)
(* preequilibrationConditionId column holds a condition ID, "" or NaN.     *)

Id(c, d) == Str(<<c, d>>)

ConditionIds == {Id("c", "1"), Id("c", "2")}

ObservableIds == {Id("o", "1"), Id("o", "2")}

MeasRow(obs, sim, preeq, obspars, noisepars) ==
    [observableId |-> obs, simulationConditionId |-> sim,
     preequilibrationConditionId |-> preeq, observableParameters |-> obspars,
     noiseParameters |-> noisepars]

BaseColumns ==
    {OBSERVABLE_ID, SIMULATION_CONDITION_ID, OBSERVABLE_PARAMETERS, NOISE_PARAMETERS}

RECURSIVE RowSeqs(_, _)
RowSeqs(R, n) ==
    IF n = 0 THEN {<<>>}
    ELSE LET shorter == RowSeqs(R, n - 1)
         IN  shorter \cup {Append(s, r) : s \in {x \in shorter : Len(x) = n - 1}, r \in R}

CondRowsWithPreeq ==
    {MeasRow(Id("o", "1"), sim, preeq, EmptyStr, EmptyStr) :
        sim \in ConditionIds, preeq \in {NaN, EmptyStr, Id("c", "1")}}

CondRowsWithoutPreeq ==
    {MeasRow(Id("o", "1"), sim, None, EmptyStr, EmptyStr) : sim \in ConditionIds}

CondTables ==
    {[columns |-> BaseColumns \cup {PREEQUILIBRATION_CONDITION_ID}, rows |-> rs] :
        rs \in RowSeqs(CondRowsWithPreeq, MaxRows)}
      \cup {[columns |-> BaseColumns, rows |-> rs] :
              rs \in RowSeqs(CondRowsWithoutPreeq, MaxRows)}

\* the dicts get_rows_for_condition is called with: any subset of the two keys
Conditions ==
    {<<>>}
          \cup {[k \in {SIMULATION_CONDITION_ID} |-> s] : s \in ConditionIds}
          \cup {[k \in {PREEQUILIBRATION_CONDITION_ID} |-> p] :
                  p \in {EmptyStr, Id("c", "1"), Id("c", "2")}}
          \cup {[k \in {SIMULATION_CONDITION_ID, PREEQUILIBRATION_CONDITION_ID} |->
                    IF k = SIMULATION_CONDITION_ID THEN s ELSE p] :
                  s \in ConditionIds, p \in {EmptyStr, Id("c", "1"), Id("c", "2")}}

InitMeas ==
    /\ list_string = Unused
    /\ measurement_df \in CondTables
    /\ observable_df = Unused
    /\ condition = Unused
    /\ problem = Unused
    /\ op = ""
    /\ ret = NotCalled
    /\ pool = Unused

CallGetSimulationConditions ==
    /\ op = ""
    /\ op' = "get_simulation_conditions"
    /\ ret' = get_simulation_conditions(measurement_df)
    /\ UNCHANGED <<list_string, measurement_df, observable_df, condition,
                   problem, pool>>

CallGetRowsForCondition ==
    /\ op = ""
    /\ \E cond \in Conditions :
         /\ condition' = cond
         /\ ret' = get_rows_for_condition(measurement_df, cond)
    /\ op' = "get_rows_for_condition"
    /\ UNCHANGED <<list_string, measurement_df, observable_df, problem, pool>>

NextMeas == CallGetSimulationConditions \/ CallGetRowsForCondition

SpecMeas == InitMeas /\ [][NextMeas]_vars

\* C5: for a non-empty measurement table get_simulation_conditions returns
\* one row for each combination of simulationConditionId and
\* preequilibrationConditionId that occurs in the table, no other row and no
\* row twice; a missing preequilibrationConditionId is reported as "", and a
\* grouping column that is null in every measurement is not a column of the
\* result.  For an empty table the result is an empty table whose only
\* column is simulationConditionId.
C5_SimulationConditions ==
    op = "get_simulation_conditions" =>
        LET df == measurement_df
            res == ret.value
            has_preeq ==
                /\ PREEQUILIBRATION_CONDITION_ID \in df.columns
                /\ \E i \in 1..Len(df.rows) :
                     ~ isnull(df.rows[i][PREEQUILIBRATION_CONDITION_ID])
            same(row, key) ==
                /\ key[SIMULATION_CONDITION_ID] = row[SIMULATION_CONDITION_ID]
                /\ has_preeq =>
                     key[PREEQUILIBRATION_CONDITION_ID] =
                        (IF isnull(row[PREEQUILIBRATION_CONDITION_ID])
                         THEN EmptyStr
                         ELSE row[PREEQUILIBRATION_CONDITION_ID])
        IN  IF df.rows = <<>>
            THEN ret = Returned([columns |-> <<SIMULATION_CONDITION_ID>>,
                                 rows |-> <<>>])
            ELSE /\ ret.raised = ""
                 /\ Range(res.columns) =
                      {SIMULATION_CONDITION_ID}
                         \cup (IF has_preeq THEN {PREEQUILIBRATION_CONDITION_ID} ELSE {})
                 /\ \A k \in 1..Len(res.rows) : DOMAIN res.rows[k] = Range(res.columns)
                 /\ \A i \in 1..Len(df.rows) :
                      \E k \in 1..Len(res.rows) : same(df.rows[i], res.rows[k])
                 /\ \A k \in 1..Len(res.rows) :
                      \E i \in 1..Len(df.rows) : same(df.rows[i], res.rows[k])
                 /\ \A k1, k2 \in 1..Len(res.rows) :
                      k1 # k2 => res.rows[k1] # res.rows[k2]

\* three measurements, two of one condition, one of them without a
\* preequilibration condition: two simulation conditions were returned
C5_Witness ==
    /\ op = "get_simulation_conditions"
    /\ Len(measurement_df.rows) = 3
    /\ \E i \in 1..3 : measurement_df.rows[i][PREEQUILIBRATION_CONDITION_ID] = NaN
    /\ ret.raised = ""
    /\ Len(ret.value.rows) = 2
    /\ PREEQUILIBRATION_CONDITION_ID \in Range(ret.value.columns)
    /\ \E k \in 1..2 : ret.value.rows[k][PREEQUILIBRATION_CONDITION_ID] = EmptyStr

\* the rows of the table that a condition selects
RowsOfCondition(df, cond) ==
    SelectSeq([i \in 1..Len(df.rows) |-> i - 1],
              LAMBDA l :
                /\ SIMULATION_CONDITION_ID \in DOMAIN cond =>
                     df.rows[l + 1][SIMULATION_CONDITION_ID] =
                        cond[SIMULATION_CONDITION_ID]
                /\ PREEQUILIBRATION_CONDITION_ID \in DOMAIN cond =>
                     (IF isnull(df.rows[l + 1][PREEQUILIBRATION_CONDITION_ID])
                      THEN EmptyStr
                      ELSE df.rows[l + 1][PREEQUILIBRATION_CONDITION_ID])
                        = cond[PREEQUILIBRATION_CONDITION_ID])

\* C6: get_rows_for_condition returns exactly the measurement rows, in their
\* original order, whose simulationConditionId equals the condition's and,
\* when the condition has a preequilibrationConditionId key, whose
\* preequilibrationConditionId (a missing value read as "") equals the
\* condition's; a key that is absent from the condition puts no restriction
\* on the rows.  (Stated for the conditions whose keys are columns of the
\* table; the table itself is left unchanged by the action.)
C6_RowsForCondition ==
    (op = "get_rows_for_condition" /\ DOMAIN condition \subseteq measurement_df.columns) =>
        /\ ret.raised = ""
        /\ ret.value.kind = "DataFrame"
        /\ ret.value.index = RowsOfCondition(measurement_df, condition)

---------------------------------------------------------------------------
(* Observable formulas.  A formula string is modelled by the sequence of    *)
(* the symbols that occur in it: a placeholder                              *)
(* {observable|noise}Parameter{n}_{observableId} or any other symbol.  A    *)
(* formula cell can also hold a number instead of a string.                 *)

OBSERVABLE_FORMULA == "observableFormula"

NOISE_FORMULA == "noiseFormula"

Placeholder(kind, n, obs) == [kind |-> kind, n |-> n, obs |-> obs]

OtherSymbol == [kind |-> "symbol", n |-> 0, obs |-> EmptyStr]

Formula(tokens) == [t |-> "str", s |-> tokens]

\* observables.get_formula_placeholders: the placeholders of the given kind
\* and observable that occur in the formula, as the list of their numbers
\* 1..n; none for an empty or a non-string formula; AssertionError when the
\* numbers that occur are not 1..n
get_formula_placeholders(formula_string, observable_id, override_type) ==
    IF formula_string.t # "str" \/ formula_string.s = <<>>
    THEN Returned(<<>>)
    ELSE LET placeholder_set ==
                 {tok.n : tok \in {x \in Range(formula_string.s) :
                                     /\ x.kind = override_type
                                     /\ x.obs = observable_id}}
         IN  IF placeholder_set # 1..Cardinality(placeholder_set)
             THEN Raised("AssertionError")
             ELSE Returned([i \in 1..Cardinality(placeholder_set) |-> i])

---------------------------------------------------------------------------
(* measurements.assert_overrides_match_parameter_count *)

\* row.get(col, None)
row_get(df, row, col) == IF col \in df.columns THEN row[col] ELSE None

\* the dict comprehensions: observable ID -> number of placeholders
placeholder_counts(obs_df, column, kind) ==
    [o \in DOMAIN obs_df.rows |->
        get_formula_placeholders(obs_df.rows[o][column], o, kind)]

\* the mutant: the noise parameters of a row are not compared
check_noise_skipped(row, replacements, noise_parameters_count) == Returned(None)

\* the try block of the loop body: the noise parameters of one row
check_noise(row, replacements, noise_parameters_count) ==
    IF row[OBSERVABLE_ID] \in DOMAIN noise_parameters_count
    THEN IF Len(replacements) # noise_parameters_count[row[OBSERVABLE_ID]]
         THEN Raised("AssertionError")
         ELSE Returned(None)
    ELSE \* except KeyError
         IF Len(replacements) # 1 \/ ~ IsNumber(replacements[1])
         THEN Raised("AssertionError")
         ELSE Returned(None)

\* the body of the loop over the measurement rows
check_row(meas_df, row, observable_parameters_count, noise_parameters_count) ==
    IF row[OBSERVABLE_ID] \notin DOMAIN observable_parameters_count
    THEN Raised("ValueError")
    ELSE LET expected == observable_parameters_count[row[OBSERVABLE_ID]]
             overrides == split_parameter_replacement_list(
                              row_get(meas_df, row, OBSERVABLE_PARAMETERS))
             replacements == split_parameter_replacement_list(
                                 row_get(meas_df, row, NOISE_PARAMETERS))
         IN  IF overrides.raised # "" THEN overrides
             ELSE IF Len(overrides.value) # expected THEN Raised("AssertionError")
             ELSE IF replacements.raised # "" THEN replacements
             ELSE check_noise(row, replacements.value, noise_parameters_count)

RECURSIVE check_rows(_, _, _, _)
check_rows(meas_df, i, observable_parameters_count, noise_parameters_count) ==
    IF i > Len(meas_df.rows) THEN Returned(None)
    ELSE LET r == check_row(meas_df, meas_df.rows[i],
                            observable_parameters_count, noise_parameters_count)
         IN  IF r.raised # "" THEN r
             ELSE check_rows(meas_df, i + 1,
                             observable_parameters_count, noise_parameters_count)

assert_overrides_match_parameter_count(meas_df, obs_df) ==
    LET obs_placeholders ==
            placeholder_counts(obs_df, OBSERVABLE_FORMULA, "observable")
        noise_placeholders ==
            IF NOISE_FORMULA \in obs_df.columns
            THEN placeholder_counts(obs_df, NOISE_FORMULA, "noise")
            ELSE [o \in DOMAIN obs_df.rows |-> Returned(<<>>)]
    IN  IF \E o \in DOMAIN obs_df.rows : obs_placeholders[o].raised # ""
        THEN Raised("AssertionError")
        ELSE IF \E o \in DOMAIN obs_df.rows : noise_placeholders[o].raised # ""
        THEN Raised("AssertionError")
        ELSE check_rows(meas_df, 1,
                        [o \in DOMAIN obs_df.rows |-> Len(obs_placeholders[o].value)],
                        [o \in DOMAIN obs_df.rows |-> Len(noise_placeholders[o].value)])

---------------------------------------------------------------------------
(* Tables for assert_overrides_match_parameter_count: one observable o1     *)
(* whose formulas vary, and measurements of o1 and of an observable o3 that *)
(* the observable table does not define.                                    *)

MaxOverrideRows == 2

o1 == Id("o", "1")

ObservableFormulas ==
    {Formula(<<OtherSymbol>>),
     Formula(<<Placeholder("observable", 1, o1), OtherSymbol>>),
     Formula(<<Placeholder("observable", 2, o1), Placeholder("observable", 1, o1),
               Placeholder("observable", 2, o1),
               Placeholder("observable", 1, Id("o", "2"))>>),
     Formula(<<Placeholder("observable", 2, o1)>>)}

NoiseFormulas ==
    {Float(1, 0),
     Formula(<<OtherSymbol>>),
     Formula(<<Placeholder("noise", 1, o1), OtherSymbol>>)}

ObservableTables ==
    {[columns |-> {OBSERVABLE_FORMULA, NOISE_FORMULA},
      rows |-> [o \in {o1} |-> [observableFormula |-> f, noiseFormula |-> nf]]] :
        f \in ObservableFormulas, nf \in NoiseFormulas}
      \cup {[columns |-> {OBSERVABLE_FORMULA},
             rows |-> [o \in {o1} |-> [observableFormula |-> f, noiseFormula |-> None]]] :
              f \in ObservableFormulas}

ObservableParameterCells ==
    {EmptyStr, NaN, Str(<<"p", "1">>), Str(<<"p", "1", ";", "1">>)}

NoiseParameterCells ==
    {EmptyStr, Float(1, 0), Str(<<"p", "1">>), Str(<<"1", ";", "p", "1">>),
     Str(<<"1", ";">>)}

OverrideRows ==
    {MeasRow(o1, Id("c", "1"), None, op_cell, np_cell) :
        op_cell \in ObservableParameterCells, np_cell \in NoiseParameterCells}
      \cup {MeasRow(Id("o", "3"), Id("c", "1"), None, EmptyStr, EmptyStr)}

OverrideTables ==
    {[columns |-> BaseColumns, rows |-> rs] :
        rs \in RowSeqs(OverrideRows, MaxOverrideRows)}
      \cup {[columns |-> {OBSERVABLE_ID, SIMULATION_CONDITION_ID}, rows |-> rs] :
              rs \in RowSeqs({MeasRow(obs, Id("c", "1"), None, None, None) :
                                obs \in {o1, Id("o", "3")}}, MaxOverrideRows)}

InitOverrides ==
    /\ list_string = Unused
    /\ measurement_df \in OverrideTables
    /\ observable_df \in ObservableTables
    /\ condition = Unused
    /\ problem = Unused
    /\ op = ""
    /\ ret = NotCalled
    /\ pool = Unused

CallAssertOverrides ==
    /\ op = ""
    /\ op' = "assert_overrides_match_parameter_count"
    /\ ret' = assert_overrides_match_parameter_count(measurement_df, observable_df)
    /\ UNCHANGED <<list_string, measurement_df, observable_df, condition,
                   problem, pool>>

NextOverrides == CallAssertOverrides

SpecOverrides == InitOverrides /\ [][NextOverrides]_vars

\* The number of entries of a replacement-list cell, and of placeholders of
\* a formula, stated without the functions that compute them.
NumEntries(cell) ==
    IF cell \in {None, NaN, EmptyStr} THEN 0
    ELSE IF IsNumber(cell) THEN 1
    ELSE Cardinality(DelimPositions(cell.s)) + 1

WellFormed(cell) == split_parameter_replacement_list(cell).raised = ""

PlaceholderNumbers(obs_df, o, column, kind) ==
    IF column \notin obs_df.columns \/ obs_df.rows[o][column].t # "str" THEN {}
    ELSE {tok.n : tok \in {x \in Range(obs_df.rows[o][column].s) :
                             x.kind = kind /\ x.obs = o}}

NumPlaceholders(obs_df, o, column, kind) ==
    Cardinality(PlaceholderNumbers(obs_df, o, column, kind))

WellNumbered(obs_df) ==
    \A o \in DOMAIN obs_df.rows :
        /\ PlaceholderNumbers(obs_df, o, OBSERVABLE_FORMULA, "observable")
             = 1..NumPlaceholders(obs_df, o, OBSERVABLE_FORMULA, "observable")
        /\ PlaceholderNumbers(obs_df, o, NOISE_FORMULA, "noise")
             = 1..NumPlaceholders(obs_df, o, NOISE_FORMULA, "noise")

Defined(row) == row[OBSERVABLE_ID] \in DOMAIN observable_df.rows

ObsCell(row) == row_get(measurement_df, row, OBSERVABLE_PARAMETERS)

NoiseCell(row) == row_get(measurement_df, row, NOISE_PARAMETERS)

ObsCountMatches(row) ==
    /\ WellFormed(ObsCell(row))
    /\ NumEntries(ObsCell(row)) =
         NumPlaceholders(observable_df, row[OBSERVABLE_ID], OBSERVABLE_FORMULA,
                         "observable")

NoiseCountMatches(row) ==
    /\ WellFormed(NoiseCell(row))
    /\ NumEntries(NoiseCell(row)) =
         NumPlaceholders(observable_df, row[OBSERVABLE_ID], NOISE_FORMULA, "noise")

RowMatches(row) == Defined(row) /\ ObsCountMatches(row) /\ NoiseCountMatches(row)

IsEmptyCell(cell) == cell \in {None, NaN, EmptyStr}

\* C9: no overrides are also allowed: a table in which every row of a
\* defined observable has, in each of the two columns, either an empty cell
\* or as many entries as the formula has placeholders is accepted without
\* error.
C9_NoOverridesAllowed ==
    ( /\ op = "assert_overrides_match_parameter_count"
      /\ WellNumbered(observable_df)
      /\ \A i \in 1..Len(measurement_df.rows) :
           LET row == measurement_df.rows[i]
           IN  /\ Defined(row)
               /\ IsEmptyCell(ObsCell(row)) \/ ObsCountMatches(row)
               /\ IsEmptyCell(NoiseCell(row)) \/ NoiseCountMatches(row) )
        => ret = Returned(None)

\* exactly one entry, and that a number
OneNumericValue(cell) ==
    LET entries == split_parameter_replacement_list(cell)
    IN  /\ entries.raised = ""
        /\ Len(entries.value) = 1
        /\ IsNumber(entries.value[1])

NoNoisePlaceholders(row) ==
    NumPlaceholders(observable_df, row[OBSERVABLE_ID], NOISE_FORMULA, "noise") = 0

\* C10: when the noise model of the row's observable defines no
\* placeholders, a noiseParameters cell holding exactly one numeric value is
\* accepted without error, while a parameter ID or more than one value in
\* that cell raises AssertionError.
C10_NumericSigmaAllowed ==
    (op = "assert_overrides_match_parameter_count" /\ WellNumbered(observable_df)) =>
        LET rows == measurement_df.rows
        IN  /\ (\A i \in 1..Len(rows) :
                  /\ Defined(rows[i])
                  /\ ObsCountMatches(rows[i])
                  /\ \/ NoiseCountMatches(rows[i])
                     \/ NoNoisePlaceholders(rows[i]) /\ OneNumericValue(NoiseCell(rows[i])))
                 => ret = Returned(None)
            /\ \A i \in 1..Len(rows) :
                  ( /\ \A j \in 1..(i - 1) : RowMatches(rows[j])
                    /\ Defined(rows[i])
                    /\ ObsCountMatches(rows[i])
                    /\ NoNoisePlaceholders(rows[i])
                    /\ WellFormed(NoiseCell(rows[i]))
                    /\ NumEntries(NoiseCell(rows[i])) >= 1
                    /\ ~ OneNumericValue(NoiseCell(rows[i])) )
                    => ret = Raised("AssertionError")

---------------------------------------------------------------------------
(* The parameter mapping (petab.v1.parameter_mapping).  A parameter map is  *)
(* a function from the IDs of the simulation parameters to a number or a    *)
(* parameter ID.  The key of a model or table parameter is its ID, a Str;   *)
(* the key {observable|noise}Parameter{n}_{observableId} of an output       *)
(* parameter is the Placeholder record of its three parts.                  *)

ESTIMATE == "estimate"

NOMINAL_VALUE == "nominalValue"

PARAMETER_SCALE == "parameterScale"

LIN == "lin"

LOG10 == "log10"

EmptyMap == <<>>

Put(m, k, v) == [x \in DOMAIN m \cup {k} |-> IF x = k THEN v ELSE m[x]]

IsPlaceholderKey(k) == "kind" \in DOMAIN k /\ k.kind \in {"observable", "noise"}

\* _perform_mapping_checks: measurements of one observable in one
\* simulation condition must not differ in their overrides
has_timepoint_specific_mappings(df) ==
    \E i, j \in 1..Len(df.rows) :
        /\ df.rows[i][OBSERVABLE_ID] = df.rows[j][OBSERVABLE_ID]
        /\ df.rows[i][SIMULATION_CONDITION_ID] = df.rows[j][SIMULATION_CONDITION_ID]
        /\ fillna(df.rows[i][PREEQUILIBRATION_CONDITION_ID], EmptyStr)
             = fillna(df.rows[j][PREEQUILIBRATION_CONDITION_ID], EmptyStr)
        /\ \/ df.rows[i][OBSERVABLE_PARAMETERS] # df.rows[j][OBSERVABLE_PARAMETERS]
           \/ df.rows[i][NOISE_PARAMETERS] # df.rows[j][NOISE_PARAMETERS]

\* _output_parameters_to_nan: every output parameter of the model starts
\* without a value
output_parameters_to_nan(mapping) ==
    [k \in DOMAIN mapping |-> IF IsPlaceholderKey(k) THEN NaN ELSE mapping[k]]

\* _apply_overrides_for_observable: the i-th override is the value of
\* {override_type}Parameter{i}_{observable_id}
RECURSIVE apply_overrides_for_observable(_, _, _, _, _)
apply_overrides_for_observable(mapping, observable_id, override_type, overrides, i) ==
    IF i > Len(overrides) THEN mapping
    ELSE apply_overrides_for_observable(
             Put(mapping, Placeholder(override_type, i, observable_id), overrides[i]),
             observable_id, override_type, overrides, i + 1)

\* _apply_output_parameter_overrides: the overrides of the rows of the
\* condition, row by row
RECURSIVE apply_output_parameter_overrides(_, _, _)
apply_output_parameter_overrides(mapping, df, labels) ==
    IF labels = <<>> THEN mapping
    ELSE LET row == df.rows[Head(labels) + 1]
             obs_overrides == split_parameter_replacement_list(
                                  row_get(df, row, OBSERVABLE_PARAMETERS)).value
             noise_overrides == split_parameter_replacement_list(
                                    row_get(df, row, NOISE_PARAMETERS)).value
             m1 == apply_overrides_for_observable(mapping, row[OBSERVABLE_ID],
                                                  "observable", obs_overrides, 1)
             m2 == apply_overrides_for_observable(m1, row[OBSERVABLE_ID],
                                                  "noise", noise_overrides, 1)
         IN  apply_output_parameter_overrides(m2, df, Tail(labels))

\* the mutant: the condition table is not applied
apply_condition_parameters_skipped(par_scale, condition_id, condition_df, model) ==
    par_scale

\* _apply_condition_parameters: every column of the condition table sets
\* its parameter to the entry of the condition's row; a NaN entry stands
\* for the model value.  par_scale is the pair of the two maps.
apply_condition_parameters(par_scale, condition_id, condition_df, model) ==
    LET cols == condition_df.columns
        entry(c) == to_float_if_float(condition_df.rows[condition_id][c])
    IN  [par |-> [k \in DOMAIN par_scale.par \cup cols |->
                     IF k \in cols
                     THEN IF entry(k) = NaN THEN model[k] ELSE entry(k)
                     ELSE par_scale.par[k]],
         scale |-> [k \in DOMAIN par_scale.scale \cup cols |->
                     IF k \in cols THEN LIN ELSE par_scale.scale[k]]]

\* the mutant: fixed parameters are never replaced by their nominal value
nominal_or_id_unfilled(parameter_df, id, fill_fixed_parameters) == id

\* what an ID that is in the parameter table stands for: the nominal value
\* of a parameter that is not estimated (if fixed parameters are filled
\* in), else the ID
nominal_or_id(parameter_df, id, fill_fixed_parameters) ==
    IF fill_fixed_parameters /\ parameter_df.rows[id][ESTIMATE] = 0
    THEN parameter_df.rows[id][NOMINAL_VALUE]
    ELSE id

\* _apply_parameter_table (scaled_parameters = False): a key that is in the
\* parameter table, and then a value that is, is replaced as nominal_or_id
\* says; the scale is that of the parameter, and LIN for a filled-in value
apply_parameter_table(par_scale, parameter_df, fill_fixed_parameters) ==
    IF parameter_df = None THEN par_scale
    ELSE LET ids == DOMAIN parameter_df.rows
             fixed(id) == fill_fixed_parameters /\ parameter_df.rows[id][ESTIMATE] = 0
             scale_of(id) ==
                 IF fixed(id) THEN LIN ELSE parameter_df.rows[id][PARAMETER_SCALE]
             par1 == [k \in DOMAIN par_scale.par |->
                         IF k \in ids
                         THEN nominal_or_id(parameter_df, k, fill_fixed_parameters)
                         ELSE par_scale.par[k]]
             scale1 == [k \in DOMAIN par_scale.scale |->
                         IF k \in ids THEN scale_of(k) ELSE par_scale.scale[k]]
             mapped(k) == par1[k].t = "str" /\ par1[k] \in ids
         IN  [par |-> [k \in DOMAIN par1 |->
                         IF mapped(k)
                         THEN nominal_or_id(parameter_df, par1[k], fill_fixed_parameters)
                         ELSE par1[k]],
              scale |-> [k \in DOMAIN scale1 |->
                         IF mapped(k) THEN scale_of(par1[k]) ELSE scale1[k]]]

\* scale_mapping = dict.fromkeys(par_mapping, LIN)
with_lin_scale(par_mapping) ==
    [par |-> par_mapping, scale |-> [k \in DOMAIN par_mapping |-> LIN]]

\* get_parameter_mapping_for_condition: model < measurement overrides <
\* condition table < parameter table
get_parameter_mapping_for_condition(condition_id, df, labels, prob) ==
    apply_parameter_table(
        apply_condition_parameters(
            with_lin_scale(
                apply_output_parameter_overrides(
                    output_parameters_to_nan(prob.model), df, labels)),
            condition_id, prob.condition_df, prob.model),
        prob.parameter_df, prob.fill_fixed_parameters)

\* Series.notna().any() of a column of the measurement table
notna_any(df, col) ==
    col \in df.columns /\ \E i \in 1..Len(df.rows) : ~ isnull(df.rows[i][col])

\* the index of cur_measurement_df: the rows of the condition are looked
\* up only if the table has an override at all (empty when
\* cur_measurement_df is None)
cur_measurement_rows(cond, df) ==
    IF \/ notna_any(df, OBSERVABLE_PARAMETERS)
       \/ notna_any(df, NOISE_PARAMETERS)
    THEN get_rows_for_condition(df, cond).value.index
    ELSE <<>>

\* the maps of the preequilibration condition, empty without one
preeq_mapping(cond, df, labels, prob) ==
    IF \/ PREEQUILIBRATION_CONDITION_ID \notin DOMAIN cond
       \/ cond[PREEQUILIBRATION_CONDITION_ID] = EmptyStr
    THEN [par |-> EmptyMap, scale |-> EmptyMap]
    ELSE get_parameter_mapping_for_condition(
             cond[PREEQUILIBRATION_CONDITION_ID], df, labels, prob)

\* return par_map_preeq, par_map_sim, scale_map_preeq, scale_map_sim
mapping_tuple(preeq, sim) == <<preeq.par, sim.par, preeq.scale, sim.scale>>

map_condition_rows(cond, df, labels, prob) ==
    mapping_tuple(
        preeq_mapping(cond, df, labels, prob),
        get_parameter_mapping_for_condition(
            cond[SIMULATION_CONDITION_ID], df, labels, prob))

\* _map_condition: the tuple of one simulation condition
map_condition(cond, df, prob) ==
    map_condition_rows(cond, df, cur_measurement_rows(cond, df), prob)

\* list(map(_map_condition, ...)) over the simulation conditions
map_conditions(simulation_conditions, df, prob) ==
    [i \in 1..Len(simulation_conditions) |->
        map_condition(simulation_conditions[i], df, prob)]

\* get_optimization_to_simulation_parameter_mapping with one thread:
\* map(_map_condition, ...) over the simulation conditions
get_optimization_to_simulation_parameter_mapping(df, prob) ==
    IF has_timepoint_specific_mappings(df) THEN Raised("ValueError")
    ELSE Returned(map_conditions(get_simulation_conditions(df).value.rows, df, prob))

---------------------------------------------------------------------------
(* Problems for the parameter mapping: a model with the parameters k1, k2   *)
(* and the output parameter observableParameter1_o1, a condition table for  *)
(* the conditions c1 and c2 with or without a column k1, and a parameter    *)
(* table with p1, p2 and k2.                                                *)

MaxMappingRows == 2

c1 == Id("c", "1")

c2 == Id("c", "2")

k1 == Id("k", "1")

k2 == Id("k", "2")

p1 == Id("p", "1")

p2 == Id("p", "2")

Model ==
    [k \in {k1, k2, Placeholder("observable", 1, o1)} |->
        IF k = k1 THEN Float(1, 0) ELSE IF k = k2 THEN Float(2, 0) ELSE Float(0, 0)]

ConditionTables ==
    {[columns |-> {k1}, rows |-> [c \in {c1, c2} |-> [k \in {k1} |-> e[c]]]] :
        e \in {[c \in {c1, c2} |-> IF c = c1 THEN NaN ELSE p2],
                [c \in {c1, c2} |-> IF c = c1 THEN p1 ELSE Float(5, 0)],
                [c \in {c1, c2} |-> IF c = c1 THEN p1 ELSE p2]}}
      \cup {[columns |-> {}, rows |-> [c \in {c1, c2} |-> EmptyMap]]}

ParameterRow(est, nominal, scale) ==
    [estimate |-> est, nominalValue |-> nominal, parameterScale |-> scale]

ParameterTables ==
    {None}
      \cup {[rows |-> [id \in {p1, p2, k2} |->
                         IF id = p1 THEN ParameterRow(est1, Float(11, 0), LOG10)
                         ELSE IF id = p2 THEN ParameterRow(1, NaN, LIN)
                         ELSE ParameterRow(est2, Float(12, 0), LIN)]] :
              est1 \in {0, 1}, est2 \in {0, 1}}

Problems ==
    [condition_df : ConditionTables, parameter_df : ParameterTables,
     model : {Model}, fill_fixed_parameters : BOOLEAN]

\* measurements of o1 and o2, with and without overrides, in the two
\* conditions, with c1 or nothing as preequilibration condition
MappingRows ==
    {MeasRow(cell[1], sim, preeq, cell[2], cell[3]) :
        cell \in {<<o1, NaN, NaN>>,
                  <<o1, Str(<<"1", ";", "p", "2">>), Str(<<"p", "1">>)>>,
                  <<Id("o", "2"), Str(<<"p", "2">>), NaN>>},
        sim \in {c1, c2}, preeq \in {NaN, c1}}

MappingTables ==
    {[columns |-> BaseColumns \cup {PREEQUILIBRATION_CONDITION_ID}, rows |-> rs] :
        rs \in RowSeqs(MappingRows, MaxMappingRows) \ {<<>>}}

InitMapping ==
    /\ list_string = Unused
    /\ measurement_df \in MappingTables
    /\ observable_df = Unused
    /\ condition = Unused
    /\ problem \in Problems
    /\ op = ""
    /\ ret = NotCalled
    /\ pool = Unused

CallMapping ==
    /\ op = ""
    /\ op' = "get_optimization_to_simulation_parameter_mapping"
    /\ ret' = get_optimization_to_simulation_parameter_mapping(measurement_df, problem)
    /\ UNCHANGED <<list_string, measurement_df, observable_df, condition,
                   problem, pool>>

NextMapping == CallMapping

SpecMapping == InitMapping /\ [][NextMapping]_vars

\* the combinations of simulation and preequilibration condition that
\* occur in a measurement table ("" for no preequilibration)
Combinations(df) ==
    {<<df.rows[i][SIMULATION_CONDITION_ID],
       fillna(df.rows[i][PREEQUILIBRATION_CONDITION_ID], EmptyStr)>> :
        i \in 1..Len(df.rows)}

\* the preequilibration condition of a row of get_simulation_conditions
PreeqOf(cond) ==
    IF PREEQUILIBRATION_CONDITION_ID \in DOMAIN cond
    THEN cond[PREEQUILIBRATION_CONDITION_ID]
    ELSE EmptyStr

\* the mapping call returned its list
Mapped ==
    op = "get_optimization_to_simulation_parameter_mapping" /\ ret.raised = ""

\* a number, or the ID of a parameter the parameter table has estimate = 1 for
NumberOrEstimated(v, parameter_df) ==
    \/ IsNumber(v)
    \/ /\ v.t = "str"
       /\ v \in DOMAIN parameter_df.rows
       /\ parameter_df.rows[v][ESTIMATE] = 1

\* C1: get_optimization_to_simulation_parameter_mapping returns one 4-tuple
\* (preequilibration parameter map, simulation parameter map,
\* preequilibration scale map, simulation scale map) for each combination of
\* simulation and preequilibration condition of the measurement table, the
\* i-th tuple for the i-th row of get_simulation_conditions: its
\* preequilibration maps are empty if that row has no preequilibration
\* condition and are maps of all model parameters otherwise, as the
\* simulation maps always are.  With a parameter table and
\* fill_fixed_parameters, every value of a parameter map is a number or the
\* ID of a parameter with estimate = 1.
C1_OneTuplePerCondition ==
    Mapped =>
        LET res == ret.value
            conds == get_simulation_conditions(measurement_df).value.rows
        IN  /\ Len(res) = Cardinality(Combinations(measurement_df))
            /\ Len(res) = Len(conds)
            /\ \A i \in 1..Len(res) :
                 /\ DOMAIN res[i] = 1..4
                 /\ DOMAIN res[i][2] = DOMAIN res[i][4]
                 /\ DOMAIN res[i][1] = DOMAIN res[i][3]
                 /\ DOMAIN problem.model \subseteq DOMAIN res[i][2]
                 /\ IF PreeqOf(conds[i]) = EmptyStr
                    THEN res[i][1] = EmptyMap /\ res[i][3] = EmptyMap
                    ELSE DOMAIN res[i][1] = DOMAIN res[i][2]
                 /\ (problem.parameter_df # None /\ problem.fill_fixed_parameters) =>
                      \A m \in {1, 2} : \A k \in DOMAIN res[i][m] :
                          NumberOrEstimated(res[i][m][k], problem.parameter_df)

\* two conditions, one of them with preequilibration, and a fixed parameter
\* of the parameter table that was replaced by its nominal value
C1_Witness ==
    /\ Mapped
    /\ Len(ret.value) = 2
    /\ \E i, j \in 1..2 : ret.value[i][1] = EmptyMap /\ ret.value[j][1] # EmptyMap
    /\ problem.parameter_df # None
    /\ problem.fill_fixed_parameters
    /\ problem.parameter_df.rows[k2][ESTIMATE] = 0
    /\ ret.value[1][2][k2] = Float(12, 0)

\* the order of the conditions: by simulation condition, then by
\* preequilibration condition
CombinationLess(a, b) ==
    \/ a[1] # b[1] /\ SeqLess(a[1].s, b[1].s)
    \/ a[1] = b[1] /\ SeqLess(a[2].s, b[2].s)

\* the i-th combination of the measurement table
ConditionAt(i) ==
    LET all == Combinations(measurement_df)
    IN  CHOOSE c \in all : Cardinality({d \in all : CombinationLess(d, c)}) = i - 1

ModelParameters == {k \in DOMAIN problem.model : ~ IsPlaceholderKey(k)}

InParameterTable(id) ==
    problem.parameter_df # None /\ id \in DOMAIN problem.parameter_df.rows

\* a parameter ID resolved through the parameter table
Resolved(id) ==
    IF /\ InParameterTable(id)
       /\ problem.fill_fixed_parameters
       /\ problem.parameter_df.rows[id][ESTIMATE] = 0
    THEN problem.parameter_df.rows[id][NOMINAL_VALUE]
    ELSE id

\* parameter k has an entry for the condition in the condition table
HasEntry(k, condition_id) ==
    /\ k \in problem.condition_df.columns
    /\ problem.condition_df.rows[condition_id][k] # NaN

EntryValue(k, condition_id) ==
    LET entry == problem.condition_df.rows[condition_id][k]
    IN  IF IsNumber(entry) THEN entry ELSE Resolved(entry)

RowsAt(i) ==
    {r \in Range(measurement_df.rows) :
        <<r[SIMULATION_CONDITION_ID],
          fillna(r[PREEQUILIBRATION_CONDITION_ID], EmptyStr)>> = ConditionAt(i)}

\* the entries of observableParameters or noiseParameters of a measurement
Overrides(r, kind) ==
    split_parameter_replacement_list(
        IF kind = "observable" THEN r[OBSERVABLE_PARAMETERS]
        ELSE r[NOISE_PARAMETERS]).value

\* the i-th condition has a measurement that overrides the placeholder
IsOverridden(i, key) ==
    \E r \in RowsAt(i) :
        /\ r[OBSERVABLE_ID] = key.obs
        /\ key.n \in 1..Len(Overrides(r, key.kind))

PlaceholderKeys(map) == {k \in DOMAIN map : IsPlaceholderKey(k)}

\* C3 as stated: in the simulation map of a condition the n-th entry of
\* observableParameters (noiseParameters) of a measurement of the condition
\* is the value of observableParameter{n}_{observableId}
\* (noiseParameter{n}_{observableId}); a placeholder of the model that no
\* measurement of the condition overrides maps to NaN, and the map has no
\* other placeholder.
C3_OutputParameterOverrides ==
    Mapped =>
        \A i \in 1..Len(ret.value) :
            LET map == ret.value[i][2]
            IN  /\ \A r \in RowsAt(i) : \A kind \in {"observable", "noise"} :
                     \A n \in 1..Len(Overrides(r, kind)) :
                        LET key == Placeholder(kind, n, r[OBSERVABLE_ID])
                        IN  key \in DOMAIN map /\ map[key] = Overrides(r, kind)[n]
                /\ \A key \in PlaceholderKeys(map) :
                     ~ IsOverridden(i, key) =>
                        key \in DOMAIN problem.model /\ map[key] = NaN

\* C3, amended: the value of the placeholder is the n-th entry resolved
\* through the parameter table: an entry that is the ID of a parameter with
\* estimate = 0 gives the nominal value of that parameter if fixed
\* parameters are filled in.
C3_OutputParameterOverridesResolved ==
    Mapped =>
        \A i \in 1..Len(ret.value) :
            LET map == ret.value[i][2]
                value(entry) == IF IsNumber(entry) THEN entry ELSE Resolved(entry)
            IN  /\ \A r \in RowsAt(i) : \A kind \in {"observable", "noise"} :
                     \A n \in 1..Len(Overrides(r, kind)) :
                        LET key == Placeholder(kind, n, r[OBSERVABLE_ID])
                        IN  /\ key \in DOMAIN map
                            /\ map[key] = value(Overrides(r, kind)[n])
                /\ \A key \in PlaceholderKeys(map) :
                     ~ IsOverridden(i, key) =>
                        key \in DOMAIN problem.model /\ map[key] = NaN

\* o1 is measured in c1 with the overrides 1;p2 and p1, p1 being fixed, and
\* o2 in c2, where observableParameter1_o1 of the model has no override
C3_Witness ==
    /\ Mapped
    /\ Len(ret.value) = 2
    /\ ret.value[1][2][Placeholder("observable", 1, o1)] = Float(1, 0)
    /\ ret.value[1][2][Placeholder("observable", 2, o1)] = p2
    /\ ret.value[1][2][Placeholder("noise", 1, o1)] = Float(11, 0)
    /\ PlaceholderKeys(ret.value[2][2]) =
          {Placeholder("observable", 1, o1), Placeholder("observable", 1, Id("o", "2"))}
    /\ ret.value[2][2][Placeholder("observable", 1, o1)] = NaN
    /\ ret.value[2][2][Placeholder("observable", 1, Id("o", "2"))] = p2

---------------------------------------------------------------------------
(* The mapping with more than one thread: the conditions are handed to a    *)
(* ThreadPoolExecutor by executor.map, which submits one task per           *)
(* condition in order; every worker thread takes the oldest task that is    *)
(* waiting and sets the result of its future; leaving the with-block waits  *)
(* for all workers, and list(mapping) reads the futures in the order of     *)
(* submission.  pool.queue holds the numbers of the waiting tasks,          *)
(* pool.running the task of each worker (0 for an idle one), pool.futures   *)
(* the results so far and pool.completed the tasks in the order in which    *)
(* they finished.                                                           *)

num_threads == 2

Workers == 1..num_threads

Pending == [t |-> "pending"]

\* the mutant: the results are read in the order of completion
results_as_completed(p) == [i \in 1..Len(p.completed) |-> p.futures[p.completed[i]]]

\* list(mapping): the results of the futures in the order of submission
results_in_order(p) == [i \in 1..Len(p.futures) |-> p.futures[i]]

\* one measurement for each condition of a non-empty set of combinations,
\* or two measurements of o1 in one condition whose overrides differ
ParallelTables ==
    {[columns |-> BaseColumns \cup {PREEQUILIBRATION_CONDITION_ID},
      rows |-> [i \in 1..Len(cs) |-> MeasRow(o1, cs[i][1], cs[i][2], pars, NaN)]] :
        cs \in {<<a>> : a \in ConditionIds \X {NaN, c1}}
                 \cup {<<a, b>> : a, b \in ConditionIds \X {NaN, c1}}
                 \cup {<<<<c2, c1>>, <<c1, NaN>>, <<c2, NaN>>, <<c1, c1>>>>},
        pars \in {NaN, Str(<<"p", "1">>)}}
      \cup {[columns |-> BaseColumns \cup {PREEQUILIBRATION_CONDITION_ID},
             rows |-> <<MeasRow(o1, c1, NaN, NaN, NaN),
                        MeasRow(o1, c1, NaN, Str(<<"p", "1">>), NaN)>>]}

ParallelProblems ==
    {prob \in Problems :
        /\ prob.condition_df.columns = {k1}
        /\ prob.condition_df.rows[c1][k1] = p1
        /\ prob.condition_df.rows[c2][k1] = p2
        /\ prob.parameter_df # None
        /\ prob.fill_fixed_parameters}

InitParallel ==
    /\ list_string = Unused
    /\ measurement_df \in ParallelTables
    /\ observable_df = Unused
    /\ condition = Unused
    /\ problem \in ParallelProblems
    /\ op = ""
    /\ ret = NotCalled
    /\ pool = Unused

\* the executor after executor.map: one waiting task and one future per
\* simulation condition, in their order
submitted(conds) ==
    [conditions |-> conds,
     queue |-> [i \in 1..Len(conds) |-> i],
     running |-> [w \in Workers |-> 0],
     futures |-> [i \in 1..Len(conds) |-> Pending],
     completed |-> <<>>]

\* the main thread up to executor.map: the checks, then one task per
\* simulation condition
Submit ==
    /\ op = ""
    /\ IF has_timepoint_specific_mappings(measurement_df)
       THEN /\ op' = "get_optimization_to_simulation_parameter_mapping"
            /\ ret' = Raised("ValueError")
            /\ pool' = pool
       ELSE /\ op' = "executor.map"
            /\ ret' = ret
            /\ pool' = submitted(get_simulation_conditions(measurement_df).value.rows)
    /\ UNCHANGED <<list_string, measurement_df, observable_df, condition, problem>>

\* an idle worker takes the oldest waiting task
WorkerTake(w) ==
    /\ op = "executor.map"
    /\ pool.running[w] = 0
    /\ pool.queue # <<>>
    /\ pool' = [pool EXCEPT !.running[w] = Head(pool.queue),
                            !.queue = Tail(pool.queue)]
    /\ UNCHANGED <<list_string, measurement_df, observable_df, condition,
                   problem, op, ret>>

\* a worker finishes _map_condition and sets the result of the future
WorkerFinish(w) ==
    /\ op = "executor.map"
    /\ pool.running[w] # 0
    /\ LET task == pool.running[w]
       IN  pool' = [pool EXCEPT
                      !.futures[task] = map_condition(pool.conditions[task],
                                                      measurement_df, problem),
                      !.completed = Append(pool.completed, task),
                      !.running[w] = 0]
    /\ UNCHANGED <<list_string, measurement_df, observable_df, condition,
                   problem, op, ret>>

\* the main thread leaves the with-block once every task is done and
\* returns list(mapping)
Collect ==
    /\ op = "executor.map"
    /\ \A i \in DOMAIN pool.futures : pool.futures[i] # Pending
    /\ op' = "get_optimization_to_simulation_parameter_mapping"
    /\ ret' = Returned(results_in_order(pool))
    /\ UNCHANGED <<list_string, measurement_df, observable_df, condition,
                   problem, pool>>

NextParallel ==
    \/ Submit
    \/ \E w \in Workers : WorkerTake(w)
    \/ \E w \in Workers : WorkerFinish(w)
    \/ Collect

SpecParallel == InitParallel /\ [][NextParallel]_vars

---------------------------------------------------------------------------
(* measurements.get_measurement_parameter_ids *)

\* x == y for two entries of a replacement list: floats compare by value,
\* and a NaN equals nothing
same_value(x, y) ==
    IF x.t = "float" /\ y.t = "float"
    THEN x.num * 10 ^ y.exp = y.num * 10 ^ x.exp
    ELSE x # NaN /\ x = y

\* itertools.chain.from_iterable
RECURSIVE chain_from_iterable(_)
chain_from_iterable(seqs) ==
    IF seqs = <<>> THEN <<>>
    ELSE Head(seqs) \o chain_from_iterable(Tail(seqs))

\* core.unique_preserve_order: the elements not met before, in order
RECURSIVE unique_from(_, _)
unique_from(seq, seen) ==
    IF seq = <<>> THEN seen
    ELSE unique_from(Tail(seq),
                     IF \E i \in 1..Len(seen) : same_value(seen[i], Head(seq))
                     THEN seen
                     ELSE Append(seen, Head(seq)))

unique_preserve_order(seq) == unique_from(seq, <<>>)

\* series.apply(split_parameter_replacement_list)
split_column(df, col) ==
    [i \in 1..Len(df.rows) |-> split_parameter_replacement_list(df.rows[i][col])]

\* the unique entries of the lists, or the ValueError of a list
unique_entries(lists) ==
    IF \E i \in 1..Len(lists) : lists[i].raised # ""
    THEN Raised("ValueError")
    ELSE Returned(unique_preserve_order(
             chain_from_iterable([i \in 1..Len(lists) |-> lists[i].value])))

get_unique_parameters(df, col) == unique_entries(split_column(df, col))

\* the two lists joined and made unique again
unique_of_both(observable_ids, noise_ids) ==
    IF observable_ids.raised # "" THEN observable_ids
    ELSE IF noise_ids.raised # "" THEN noise_ids
    ELSE Returned(unique_preserve_order(observable_ids.value \o noise_ids.value))

get_measurement_parameter_ids(df) ==
    IF {OBSERVABLE_PARAMETERS, NOISE_PARAMETERS} \ df.columns # {}
    THEN Raised("KeyError")
    ELSE unique_of_both(get_unique_parameters(df, OBSERVABLE_PARAMETERS),
                        get_unique_parameters(df, NOISE_PARAMETERS))

\* measurement tables whose overrides are parameter IDs and numbers
IdCells ==
    {NaN, Str(<<"p", "1">>), Str(<<"p", "2">>), Str(<<"p", "2", ";", "p", "1">>),
     Str(<<"1", ";", "p", "1">>), Str(<<"1", ";">>)}

IdTables ==
    {[columns |-> BaseColumns, rows |-> rs] :
        rs \in RowSeqs({MeasRow(o1, c1, None, op_cell, np_cell) :
                          op_cell \in IdCells, np_cell \in IdCells},
                       MaxOverrideRows)}
      \cup {[columns |-> BaseColumns \ {NOISE_PARAMETERS},
             rows |-> <<MeasRow(o1, c1, None, NaN, None)>>]}

InitIds ==
    /\ list_string = Unused
    /\ measurement_df \in IdTables
    /\ observable_df = Unused
    /\ condition = Unused
    /\ problem = Unused
    /\ op = ""
    /\ ret = NotCalled
    /\ pool = Unused

CallGetMeasurementParameterIds ==
    /\ op = ""
    /\ op' = "get_measurement_parameter_ids"
    /\ ret' = get_measurement_parameter_ids(measurement_df)
    /\ UNCHANGED <<list_string, measurement_df, observable_df, condition,
                   problem, pool>>

NextIds == CallGetMeasurementParameterIds

SpecIds == InitIds /\ [][NextIds]_vars

\* all entries of the observableParameters column, then all of the
\* noiseParameters column
AllOverrides(df) ==
    chain_from_iterable(
        [i \in 1..Len(df.rows) |-> Overrides(df.rows[i], "observable")])
      \o chain_from_iterable(
        [i \in 1..Len(df.rows) |-> Overrides(df.rows[i], "noise")])

FirstOccurrence(seq, x) == CHOOSE i \in 1..Len(seq) :
    seq[i] = x /\ \A j \in 1..(i - 1) : seq[j] # x

\* C11: when get_measurement_parameter_ids returns, every parameter ID that
\* is an entry of observableParameters or noiseParameters is in the list
\* exactly once, the IDs are in the order of their first occurrence (all
\* observableParameters before all noiseParameters), and every element of
\* the list is a parameter ID: no numeric override is in it.
C11_MeasurementParameterIds ==
    (op = "get_measurement_parameter_ids" /\ ret.raised = "") =>
        LET all == AllOverrides(measurement_df)
            ids == ret.value
        IN  /\ \A i \in 1..Len(all) :
                 all[i].t = "str" =>
                    Cardinality({j \in 1..Len(ids) : ids[j] = all[i]}) = 1
            /\ \A j \in 1..Len(ids) : ids[j].t = "str" /\ ids[j] \in Range(all)
            /\ \A i, j \in 1..Len(ids) :
                 i < j => FirstOccurrence(all, ids[i]) < FirstOccurrence(all, ids[j])

---------------------------------------------------------------------------
(* priors.priors_to_measurements.  A Problem holds references to its three  *)
(* tables; the tables themselves live in a heap, a function from            *)
(* references to tables, so that a copy of a problem and the problem can    *)
(* share a table or not.  An observable or parameter table is               *)
(* [columns, index, rows]: the IDs in their order and a row for each ID; a  *)
(* measurement table here is [columns, rows] with a sequence of rows.  A    *)
(* row is a function from the columns to the cells.  Cells that hold one of *)
(* the keywords of the format are Name records.                             *)

OBSERVABLE_TRANSFORMATION == "observableTransformation"

NOISE_DISTRIBUTION == "noiseDistribution"

OBJECTIVE_PRIOR_TYPE == "objectivePriorType"

OBJECTIVE_PRIOR_PARAMETERS == "objectivePriorParameters"

MEASUREMENT == "measurement"

TIME == "time"

LOG == "log"

NORMAL == "normal"

LAPLACE == "laplace"

LOG_NORMAL == "logNormal"

LOG_LAPLACE == "logLaplace"

PARAMETER_SCALE_NORMAL == "parameterScaleNormal"

PARAMETER_SCALE_LAPLACE == "parameterScaleLaplace"

UNIFORM == "uniform"

PARAMETER_SCALE_UNIFORM == "parameterScaleUniform"

\* a prior type the format does not know
CAUCHY == "cauchy"

Name(n) == [t |-> "str", name |-> n]

\* "uniform" in prior_type.lower()
contains_uniform(prior_type) ==
    prior_type.name \in {UNIFORM, PARAMETER_SCALE_UNIFORM}

\* "parameterScale" in prior_type
contains_parameterScale(prior_type) ==
    prior_type.name \in {PARAMETER_SCALE_NORMAL, PARAMETER_SCALE_LAPLACE,
                         PARAMETER_SCALE_UNIFORM}

\* f"prior_{parameter_id}"
prior_observable_id(parameter_id) ==
    Str(<<"p", "r", "i", "o", "r", "_">> \o parameter_id.s)

\* f"noiseParameter1_{new_obs_id}"
noise_placeholder(new_obs_id) ==
    Str(<<"n", "o", "i", "s", "e", "P", "a", "r", "a", "m", "e", "t", "e", "r",
          "1", "_">> \o new_obs_id.s)

scaled_observable_formula(parameter_id, parameter_scale) ==
    IF parameter_scale = Name(LIN) THEN Returned(parameter_id)
    ELSE IF parameter_scale = Name(LOG)
    THEN Returned(Str(<<"l", "n", "(">> \o parameter_id.s \o <<")">>))
    ELSE IF parameter_scale = Name(LOG10)
    THEN Returned(Str(<<"l", "o", "g", "1", "0", "(">> \o parameter_id.s \o <<")">>))
    ELSE Raised("ValueError")

\* tuple(map(float, s.split(PARAMETER_SEPARATOR))): a cell that is no str
\* has no split
prior_parameters_of(cell) ==
    IF cell.t # "str" THEN Raised("AttributeError")
    ELSE IF \E i \in DOMAIN split(cell.s, PARAMETER_SEPARATOR) :
                ~ ParsesAsFloat(split(cell.s, PARAMETER_SEPARATOR)[i])
    THEN Raised("ValueError")
    ELSE Returned([i \in DOMAIN split(cell.s, PARAMETER_SEPARATOR) |->
                      FloatOfStr(split(cell.s, PARAMETER_SEPARATOR)[i])])

\* a row of a DataFrame built from dicts, or of a concatenation: the
\* columns the row has no value for are NaN
fill_row(row, columns) ==
    [c \in columns |-> IF c \in DOMAIN row THEN row[c] ELSE NaN]

\* the union of the keys of a sequence of dicts
keys_of(dicts) == UNION {DOMAIN dicts[i] : i \in DOMAIN dicts}

\* pd.concat([df, pd.DataFrame(dicts).set_index(OBSERVABLE_ID)])
concat_observables(df, dicts) ==
    [columns |-> df.columns \cup (keys_of(dicts) \ {OBSERVABLE_ID}),
     index |-> df.index \o [i \in DOMAIN dicts |-> dicts[i][OBSERVABLE_ID]],
     rows |-> [o \in Range(df.index)
                     \cup {dicts[i][OBSERVABLE_ID] : i \in DOMAIN dicts} |->
                 fill_row(IF o \in Range(df.index) THEN df.rows[o]
                          ELSE dicts[CHOOSE i \in DOMAIN dicts :
                                        dicts[i][OBSERVABLE_ID] = o],
                          df.columns \cup (keys_of(dicts) \ {OBSERVABLE_ID}))]]

\* pd.concat([df, pd.DataFrame(dicts)], ignore_index=True)
concat_measurements(df, dicts) ==
    [columns |-> df.columns \cup keys_of(dicts),
     rows |-> [i \in 1..(Len(df.rows) + Len(dicts)) |->
                 fill_row(IF i <= Len(df.rows) THEN df.rows[i]
                          ELSE dicts[i - Len(df.rows)],
                          df.columns \cup keys_of(dicts))]]

\* the mutant: the problem is copied without its tables
copy_shallow(heap, prob) == [heap |-> heap, prob |-> prob]

\* copy.deepcopy(problem): the copy refers to new tables that equal the old
deepcopy(heap, prob) ==
    [heap |-> [r \in DOMAIN heap \cup {r + 3 : r \in DOMAIN heap} |->
                  IF r \in DOMAIN heap THEN heap[r] ELSE heap[r - 3]],
     prob |-> [observable_df |-> prob.observable_df + 3,
               measurement_df |-> prob.measurement_df + 3,
               parameter_df |-> prob.parameter_df + 3]]

\* the mutant: the parameters that are not estimated are converted too
estimated_ids_all(parameter_df) == parameter_df.index

\* the IDs of problem.parameter_df.loc[problem.parameter_df[ESTIMATE] == 1]
estimated_ids(parameter_df) ==
    SelectSeq(parameter_df.index, LAMBDA id : parameter_df.rows[id][ESTIMATE] = 1)

\* column not in par_df_tmp or par_df_tmp.get(column).isna().all()
all_na(parameter_df, column) ==
    \/ column \notin parameter_df.columns
    \/ \A i \in DOMAIN estimated_ids(parameter_df) :
          isnull(parameter_df.rows[estimated_ids(parameter_df)[i]][column])

\* the observableTransformation of the new observable, if it gets one
with_transformation(observable, prior_type, obs_df) ==
    IF prior_type.name \in {LOG_NORMAL, LOG_LAPLACE}
    THEN observable @@ (OBSERVABLE_TRANSFORMATION :> Name(LOG))
    ELSE IF OBSERVABLE_TRANSFORMATION \in obs_df.columns
    THEN observable @@ (OBSERVABLE_TRANSFORMATION :> Name(LIN))
    ELSE observable

\* the noiseDistribution of the new observable
with_distribution(observable, prior_type) ==
    IF prior_type.name \in {NORMAL, PARAMETER_SCALE_NORMAL, LOG_NORMAL}
    THEN Returned(observable @@ (NOISE_DISTRIBUTION :> Name(NORMAL)))
    ELSE IF prior_type.name \in {LAPLACE, PARAMETER_SCALE_LAPLACE, LOG_LAPLACE}
    THEN Returned(observable @@ (NOISE_DISTRIBUTION :> Name(LAPLACE)))
    ELSE Raised("NotImplementedError")

new_observable_of(new_obs_id, formula, prior_type, obs_df) ==
    with_distribution(
        with_transformation(
            (OBSERVABLE_ID :> new_obs_id)
              @@ (OBSERVABLE_FORMULA :> formula)
              @@ (NOISE_FORMULA :> noise_placeholder(new_obs_id)),
            prior_type, obs_df),
        prior_type)

\* the measurement of the prior, at the time and in the condition of the
\* first measurement
new_measurement_of(new_obs_id, prior_parameters, meas_df, new_meas_df) ==
    (OBSERVABLE_ID :> new_obs_id)
      @@ (TIME :> meas_df.rows[1][TIME])
      @@ (MEASUREMENT :> prior_parameters[1])
      @@ (NOISE_PARAMETERS :> prior_parameters[2])
      @@ (SIMULATION_CONDITION_ID :> new_meas_df.rows[1][SIMULATION_CONDITION_ID])
      @@ (IF PREEQUILIBRATION_CONDITION_ID \in new_meas_df.columns
          THEN PREEQUILIBRATION_CONDITION_ID :>
                  new_meas_df.rows[1][PREEQUILIBRATION_CONDITION_ID]
          ELSE <<>>)

\* new_problem.parameter_df.loc[parameter_id, column] = np.nan for the two
\* prior columns: the table is changed in place
remove_prior(heap, ref, parameter_id) ==
    [heap EXCEPT ![ref].rows[parameter_id] =
        [c \in DOMAIN @ |->
            IF c \in {OBJECTIVE_PRIOR_TYPE, OBJECTIVE_PRIOR_PARAMETERS}
            THEN NaN ELSE @[c]]]

\* the loop has raised exc
raise(st, exc) == [st EXCEPT !.raised = exc]

\* the end of an iteration that adds an observable and a measurement
append_prior(st, parameter_id, observable, measurement, new_prob) ==
    [heap |-> remove_prior(st.heap, new_prob.parameter_df, parameter_id),
     observables |-> Append(st.observables, observable),
     measurements |-> Append(st.measurements, measurement),
     raised |-> ""]

\* the end of an iteration once the observable is made
convert_observable(st, parameter_id, prior_parameters, observable, prob, new_prob) ==
    IF observable.raised # "" THEN raise(st, observable.raised)
    ELSE IF st.heap[prob.measurement_df].rows = <<>> THEN raise(st, "IndexError")
    ELSE append_prior(st, parameter_id, observable.value,
                      new_measurement_of(prior_observable_id(parameter_id),
                                         prior_parameters,
                                         st.heap[prob.measurement_df],
                                         st.heap[new_prob.measurement_df]),
                      new_prob)

convert_formula(st, parameter_id, prior_type, prior_parameters, formula, prob, new_prob) ==
    IF formula.raised # "" THEN raise(st, formula.raised)
    ELSE convert_observable(st, parameter_id, prior_parameters,
                            new_observable_of(prior_observable_id(parameter_id),
                                              formula.value, prior_type,
                                              st.heap[new_prob.observable_df]),
                            prob, new_prob)

\* row.get(PARAMETER_SCALE, LIN)
parameter_scale_of(row) ==
    IF PARAMETER_SCALE \in DOMAIN row THEN row[PARAMETER_SCALE] ELSE Name(LIN)

convert_parameters(st, parameter_id, row, prior_parameters, prob, new_prob) ==
    IF prior_parameters.raised # "" THEN raise(st, prior_parameters.raised)
    ELSE IF Len(prior_parameters.value) # 2 THEN raise(st, "AssertionError")
    ELSE IF prior_observable_id(parameter_id)
               \in Range(st.heap[new_prob.observable_df].index)
    THEN raise(st, "ValueError")
    ELSE convert_formula(st, parameter_id, row[OBJECTIVE_PRIOR_TYPE],
                         prior_parameters.value,
                         scaled_observable_formula(
                             parameter_id,
                             IF contains_parameterScale(row[OBJECTIVE_PRIOR_TYPE])
                             THEN parameter_scale_of(row) ELSE Name(LIN)),
                         prob, new_prob)

\* one iteration of the loop over the estimated parameters
convert_row(st, parameter_id, row, prob, new_prob) ==
    IF isnull(row[OBJECTIVE_PRIOR_TYPE])
    THEN IF ~ isnull(row[OBJECTIVE_PRIOR_PARAMETERS])
         THEN raise(st, "AssertionError")
         ELSE st
    ELSE IF contains_uniform(row[OBJECTIVE_PRIOR_TYPE])
    THEN raise(st, "NotImplementedError")
    ELSE convert_parameters(st, parameter_id, row,
                            prior_parameters_of(row[OBJECTIVE_PRIOR_PARAMETERS]),
                            prob, new_prob)

\* for _, row in par_df_tmp.iterrows(), up to the first exception
RECURSIVE convert_rows(_, _, _, _, _)
convert_rows(st, ids, par_df_tmp, prob, new_prob) ==
    IF ids = <<>> \/ st.raised # "" THEN st
    ELSE convert_rows(convert_row(st, Head(ids), par_df_tmp.rows[Head(ids)],
                                  prob, new_prob),
                      Tail(ids), par_df_tmp, prob, new_prob)

\* after the loop: the two concatenated tables become tables of
\* new_problem
concat_tables(st, new_prob) ==
    IF st.raised # "" THEN [heap |-> st.heap, result |-> Raised(st.raised)]
    ELSE [heap |-> [r \in DOMAIN st.heap \cup {7, 8} |->
                       IF r = 7
                       THEN concat_observables(st.heap[new_prob.observable_df],
                                               st.observables)
                       ELSE IF r = 8
                       THEN concat_measurements(st.heap[new_prob.measurement_df],
                                                st.measurements)
                       ELSE st.heap[r]],
          result |-> Returned([observable_df |-> 7, measurement_df |-> 8,
                               parameter_df |-> new_prob.parameter_df])]

\* priors_to_measurements from the copy on; par_df is problem.parameter_df
\* at the time of the call
convert_copy(copy, par_df, prob) ==
    IF \/ all_na(par_df, OBJECTIVE_PRIOR_TYPE)
       \/ all_na(par_df, OBJECTIVE_PRIOR_PARAMETERS)
    THEN [heap |-> copy.heap, result |-> Returned(copy.prob)]
    ELSE concat_tables(
             convert_rows([heap |-> copy.heap, observables |-> <<>>,
                           measurements |-> <<>>, raised |-> ""],
                          estimated_ids(par_df), par_df, prob, copy.prob),
             copy.prob)

\* the heap after the call and what the call returned or raised
priors_to_measurements(heap, prob) ==
    convert_copy(deepcopy(heap, prob), heap[prob.parameter_df], prob)

---------------------------------------------------------------------------
(* Problems for priors_to_measurements: a parameter table of up to         *)
(* MaxPriors parameters p1, p2, ..., an observable table with o1 and maybe *)
(* an observable prior_p1, and a measurement table of o1.                  *)

MaxPriors == 2

ParameterIdAt(i) == Str(<<"p", IF i = 1 THEN "1" ELSE IF i = 2 THEN "2" ELSE "a">>)

PriorRow(est, type, parameters, scale) ==
    (ESTIMATE :> est) @@ (OBJECTIVE_PRIOR_TYPE :> type)
      @@ (OBJECTIVE_PRIOR_PARAMETERS :> parameters) @@ (PARAMETER_SCALE :> scale)

Two == Str(<<"1", ";", "2">>)

PriorRows ==
    {PriorRow(1, Name(NORMAL), Two, Name(LOG10)),
     PriorRow(1, Name(LAPLACE), Str(<<"2", ";", "1">>), Name(LIN)),
     PriorRow(1, Name(LOG_NORMAL), Two, Name(LOG)),
     PriorRow(1, Name(LOG_LAPLACE), Two, Name(LIN)),
     PriorRow(1, Name(PARAMETER_SCALE_NORMAL), Two, Name(LOG10)),
     PriorRow(1, Name(PARAMETER_SCALE_NORMAL), Two, Name(LIN)),
     PriorRow(1, Name(PARAMETER_SCALE_LAPLACE), Str(<<"2", ";", "1", ".", "2">>),
              Name(LOG)),
     PriorRow(1, Name(UNIFORM), Two, Name(LIN)),
     PriorRow(1, Name(PARAMETER_SCALE_UNIFORM), Two, Name(LOG10)),
     PriorRow(1, Name(CAUCHY), Two, Name(LIN)),
     PriorRow(1, NaN, NaN, Name(LIN)),
     PriorRow(1, NaN, Two, Name(LIN)),
     PriorRow(1, Name(NORMAL), NaN, Name(LIN)),
     PriorRow(1, Name(NORMAL), Str(<<"1">>), Name(LIN)),
     PriorRow(1, Name(NORMAL), Str(<<"1", ";", "2", ";", "1">>), Name(LIN)),
     PriorRow(1, Name(NORMAL), Str(<<"1", ";">>), Name(LIN)),
     PriorRow(0, Name(NORMAL), Two, Name(LOG10)),
     PriorRow(0, Name(UNIFORM), Two, Name(LIN)),
     PriorRow(0, NaN, NaN, Name(LOG))}

\* a table with the given rows, restricted to the given columns
PriorTable(rows, columns) ==
    [columns |-> columns,
     index |-> [i \in DOMAIN rows |-> ParameterIdAt(i)],
     rows |-> [id \in {ParameterIdAt(i) : i \in DOMAIN rows} |->
                 [c \in columns |->
                    rows[CHOOSE i \in DOMAIN rows : ParameterIdAt(i) = id][c]]]]

PriorColumns ==
    {ESTIMATE, OBJECTIVE_PRIOR_TYPE, OBJECTIVE_PRIOR_PARAMETERS, PARAMETER_SCALE}

PriorTables ==
    {PriorTable(rows, PriorColumns) : rows \in RowSeqs(PriorRows, MaxPriors)}
      \cup {PriorTable(<<row>>, columns) :
              row \in PriorRows,
              columns \in {PriorColumns \ {PARAMETER_SCALE},
                           PriorColumns \ {OBJECTIVE_PRIOR_TYPE},
                           PriorColumns \ {OBJECTIVE_PRIOR_PARAMETERS}}}

PriorObservableRow(formula, with_transformation_column) ==
    (OBSERVABLE_FORMULA :> formula) @@ (NOISE_FORMULA :> Str(<<"1">>))
      @@ (IF with_transformation_column
          THEN OBSERVABLE_TRANSFORMATION :> Name(LOG) ELSE <<>>)

PriorObservableTables ==
    {[columns |-> DOMAIN PriorObservableRow(k1, b),
      index |-> ids,
      rows |-> [o \in Range(ids) |-> PriorObservableRow(k1, b)]] :
        ids \in {<<o1>>, <<o1, prior_observable_id(p1)>>}, b \in BOOLEAN}

PriorMeasurementRow(time, sim, columns) ==
    [c \in columns |->
        CASE c = OBSERVABLE_ID -> o1
          [] c = TIME -> time
          [] c = MEASUREMENT -> Float(5, 0)
          [] c = SIMULATION_CONDITION_ID -> sim
          [] c = PREEQUILIBRATION_CONDITION_ID -> c2
          [] c = NOISE_PARAMETERS -> NaN]

PriorMeasurementTables ==
    {[columns |-> columns,
      rows |-> SubSeq(<<PriorMeasurementRow(Float(1, 0), c1, columns),
                        PriorMeasurementRow(Float(2, 0), c2, columns)>>, 1, n)] :
        n \in {1, 2},
        columns \in {{OBSERVABLE_ID, TIME, MEASUREMENT, SIMULATION_CONDITION_ID},
                     {OBSERVABLE_ID, TIME, MEASUREMENT, SIMULATION_CONDITION_ID,
                      PREEQUILIBRATION_CONDITION_ID, NOISE_PARAMETERS}}}

\* the problem passed to priors_to_measurements, its tables at the
\* references 1, 2 and 3
InputProblem == [observable_df |-> 1, measurement_df |-> 2, parameter_df |-> 3]

InitPriors ==
    /\ list_string = Unused
    /\ measurement_df = Unused
    /\ observable_df = Unused
    /\ condition = Unused
    /\ \E o \in PriorObservableTables, m \in PriorMeasurementTables, q \in PriorTables :
          problem = [heap |-> <<o, m, q>>, prob |-> InputProblem]
    /\ op = ""
    /\ ret = NotCalled
    /\ pool = Unused

\* the tables after the call, the problem the caller still holds, and the
\* result
called(outcome) ==
    /\ problem' = [heap |-> outcome.heap, prob |-> problem.prob]
    /\ ret' = outcome.result

CallPriorsToMeasurements ==
    /\ op = ""
    /\ op' = "priors_to_measurements"
    /\ called(priors_to_measurements(problem.heap, problem.prob))
    /\ UNCHANGED <<list_string, measurement_df, observable_df, condition, pool>>

NextPriors == CallPriorsToMeasurements

SpecPriors == InitPriors /\ [][NextPriors]_vars

\* the value of a cell of a row, NaN for a column the table does not have
Cell(row, column) == IF column \in DOMAIN row THEN row[column] ELSE NaN

\* the estimated parameters of a parameter table that have a prior that
\* is not uniform and has two parameters, in the order of the table
WithPrior(par_df) ==
    SelectSeq(par_df.index,
              LAMBDA id :
                LET row == par_df.rows[id]
                    type == Cell(row, OBJECTIVE_PRIOR_TYPE)
                    parameters == Cell(row, OBJECTIVE_PRIOR_PARAMETERS)
                IN  /\ row[ESTIMATE] = 1
                    /\ ~ isnull(type)
                    /\ type.name \notin {UNIFORM, PARAMETER_SCALE_UNIFORM}
                    /\ ~ isnull(parameters)
                    /\ Cardinality(DelimPositions(parameters.s)) = 1)

\* the i-th prior parameter of a parameter
PriorParameter(par_df, id, i) ==
    FloatOfStr(split(par_df.rows[id][OBJECTIVE_PRIOR_PARAMETERS].s,
                     PARAMETER_SEPARATOR)[i])

\* every row of the old table is a row of the new one, at its old place
\* and with its old cells
ObservablesKept(old, new) ==
    /\ SubSeq(new.index, 1, Len(old.index)) = old.index
    /\ \A o \in Range(old.index) : \A c \in old.columns :
          new.rows[o][c] = old.rows[o][c]

MeasurementsKept(old, new) ==
    /\ Len(new.rows) >= Len(old.rows)
    /\ \A i \in 1..Len(old.rows) : \A c \in old.columns :
          new.rows[i][c] = old.rows[i][c]

\* what C12 says of the tables obs, meas, par of the problem and the
\* tables of the problem that is returned for it
PriorsAreMeasurements(obs, meas, par, new_obs, new_meas, new_par) ==
    LET ids == WithPrior(par)
        k == Len(ids)
    IN  /\ new_obs.index = obs.index \o [j \in 1..k |-> prior_observable_id(ids[j])]
        /\ ObservablesKept(obs, new_obs)
        /\ Len(new_meas.rows) = Len(meas.rows) + k
        /\ MeasurementsKept(meas, new_meas)
        /\ \A j \in 1..k :
              LET row == new_meas.rows[Len(meas.rows) + j]
              IN  /\ row[OBSERVABLE_ID] = prior_observable_id(ids[j])
                  /\ row[MEASUREMENT] = PriorParameter(par, ids[j], 1)
                  /\ row[NOISE_PARAMETERS] = PriorParameter(par, ids[j], 2)
                  /\ row[TIME] = meas.rows[1][TIME]
                  /\ row[SIMULATION_CONDITION_ID] = meas.rows[1][SIMULATION_CONDITION_ID]
                  /\ PREEQUILIBRATION_CONDITION_ID \in meas.columns =>
                        row[PREEQUILIBRATION_CONDITION_ID] =
                           meas.rows[1][PREEQUILIBRATION_CONDITION_ID]
        /\ new_par.index = par.index
        /\ \A id \in Range(par.index) :
              IF id \in Range(ids)
              THEN /\ isnull(new_par.rows[id][OBJECTIVE_PRIOR_TYPE])
                   /\ isnull(new_par.rows[id][OBJECTIVE_PRIOR_PARAMETERS])
              ELSE new_par.rows[id] = par.rows[id]
        /\ k = 0 => new_obs = obs /\ new_meas = meas /\ new_par = par

\* C12: when priors_to_measurements returns for a problem in which k
\* estimated parameters have a non-uniform prior with two parameters, the
\* new problem has the old observables and measurements and after them one
\* observable prior_{parameterId} and one measurement for each of the k
\* parameters, in the order of the parameter table; the measurement has the
\* first prior parameter as measurement, the second as noiseParameters, and
\* the time and the condition IDs of the first measurement of the problem.
\* The k parameters have no prior in the new parameter table, every other
\* row of it is unchanged, and for k = 0 the three tables equal the old ones.
C12_PriorsBecomeMeasurements ==
    [][(op' = "priors_to_measurements" /\ ret'.raised = "") =>
          PriorsAreMeasurements(
              problem.heap[1], problem.heap[2], problem.heap[3],
              problem'.heap[ret'.value.observable_df],
              problem'.heap[ret'.value.measurement_df],
              problem'.heap[ret'.value.parameter_df])]_vars

\* two priors were converted for a problem with two measurements and a
\* preequilibration condition
C12_Witness ==
    /\ op = "priors_to_measurements"
    /\ ret.raised = ""
    /\ Len(WithPrior(problem.heap[3])) = 2
    /\ PREEQUILIBRATION_CONDITION_ID \in problem.heap[2].columns
    /\ Len(problem.heap[2].rows) = 2
    /\ Len(problem.heap[ret.value.measurement_df].rows) = 4
    /\ problem.heap[ret.value.measurement_df].rows[4][MEASUREMENT] = Float(2, 0)
    /\ problem.heap[ret.value.measurement_df].rows[4][NOISE_PARAMETERS] = Float(1, 0)

\* the value of a parameter on a scale, as a formula
OnScale(parameter_id, parameter_scale) ==
    IF parameter_scale = Name(LOG)
    THEN Str(<<"l", "n", "(">> \o parameter_id.s \o <<")">>)
    ELSE IF parameter_scale = Name(LOG10)
    THEN Str(<<"l", "o", "g", "1", "0", "(">> \o parameter_id.s \o <<")">>)
    ELSE parameter_id

\* C13: the observableFormula of every observable priors_to_measurements
\* creates is the parameter on its parameterScale (lin if the table has no
\* such column): the parameter ID for lin, ln(ID) for log and log10(ID) for
\* log10, whatever the type of the prior.
C13_FormulaOnParameterScale ==
    (op = "priors_to_measurements" /\ ret.raised = "") =>
        \A id \in Range(WithPrior(problem.heap[3])) :
            problem.heap[ret.value.observable_df]
                .rows[prior_observable_id(id)][OBSERVABLE_FORMULA]
              = OnScale(id, parameter_scale_of(problem.heap[3].rows[id]))

\* C14: priors_to_measurements leaves the three tables of the problem it is
\* given as they were, whether it returns or raises, and the problem it
\* returns shares no table with the problem it was given.
C14_InputProblemUnchanged ==
    [][op' = "priors_to_measurements" =>
          /\ \A r \in {1, 2, 3} : problem'.heap[r] = problem.heap[r]
          /\ problem'.prob = problem.prob
          /\ ret'.raised = "" =>
                {ret'.value.observable_df, ret'.value.measurement_df,
                 ret'.value.parameter_df} \cap {1, 2, 3} = {}]_vars

\* the call raised for the second parameter after it had removed the prior
\* of the first one from the parameter table of the copy
C14_Witness ==
    /\ op = "priors_to_measurements"
    /\ ret.raised \in {"NotImplementedError", "ValueError", "AssertionError"}
    /\ ~ isnull(problem.heap[3].rows[p1][OBJECTIVE_PRIOR_TYPE])
    /\ isnull(problem.heap[6].rows[p1][OBJECTIVE_PRIOR_TYPE])


---------------------------------------------------------------------------
(* v2 calculate: residuals and noise formulas *)

OBSERVABLE_PLACEHOLDERS == "observablePlaceholders"

NOISE_PLACEHOLDERS == "noisePlaceholders"

SIMULATION == "simulation"

RESIDUAL == "residual"

\* the floats a residual is computed from are kept as terms: the difference,
\* the quotient and the logarithms are not evaluated
Sub(a, b) == [t |-> "sub", a |-> a, b |-> b]

Div(a, b) == [t |-> "div", a |-> a, b |-> b]

Ln(x) == [t |-> "ln", x |-> x]

Log10(x) == [t |-> "log10", x |-> x]

\* petab.v1.scale: the value on the given scale
scale(value, trafo) ==
    CASE trafo = LIN -> Returned(value)
      [] trafo = LOG -> Returned(Ln(value))
      [] trafo = LOG10 -> Returned(Log10(value))
      [] OTHER -> Raised("ValueError")

\* petab.v1.is_empty: a missing cell or an empty string
is_empty(x) == isnull(x) \/ x = EmptyStr

\* Series.get / dict.get
get(row, key, default) == IF key \in DOMAIN row THEN row[key] ELSE default

\* str.startswith
startswith(s, prefix) ==
    Len(s) >= Len(prefix) /\ SubSeq(s, 1, Len(prefix)) = prefix

\* a sympy expression: the sum of its terms
Add(terms) == [t |-> "expr", terms |-> terms]

\* math.sympify_petab of a sum: the terms, a number or a symbol each
sympify_petab(x) ==
    LET parts == split(x.s, "+")
    IN  Add([i \in 1..Len(parts) |-> to_float_if_float(Str(strip(parts[i])))])

get_symbolic_noise_formulas(obs_df) ==
    [id \in DOMAIN obs_df |->
        IF NOISE_FORMULA \in DOMAIN obs_df[id]
        THEN sympify_petab(obs_df[id][NOISE_FORMULA])
        ELSE None]

RECURSIVE Pow10(_)
Pow10(n) == IF n = 0 THEN 1 ELSE 10 * Pow10(n - 1)

float_add(a, b) ==
    IF a = NaN \/ b = NaN THEN NaN
    ELSE LET e == IF a.exp > b.exp THEN a.exp ELSE b.exp
         IN  Float(a.num * Pow10(e - a.exp) + b.num * Pow10(e - b.exp), e)

RECURSIVE float_sum(_)
float_sum(terms) ==
    IF Len(terms) = 1 THEN terms[1]
    ELSE float_add(float_sum(SubSeq(terms, 1, Len(terms) - 1)), terms[Len(terms)])

\* [p.strip() for p in placeholders if p.strip()]
stripped_nonempty(ps) ==
    SelectSeq([i \in 1..Len(ps) |-> Str(strip(ps[i]))], LAMBDA p : p # EmptyStr)

\* the dict of zip(keys, values, strict=False): a later pair replaces an
\* earlier one of the same key
RECURSIVE zip_dict(_, _, _)
zip_dict(ks, vs, n) ==
    IF n = 0 THEN EmptyMap
    ELSE Put(zip_dict(ks, vs, n - 1), ks[n], vs[n])

zip_overrides(placeholders, values) ==
    zip_dict(placeholders, values,
             IF Len(placeholders) < Len(values) THEN Len(placeholders)
             ELSE Len(values))

\* overrides[observable_id] = simulation, then one entry per parameter
fill_in(overrides, observable_id, simulation, par_df) ==
    LET with_obs == Put(overrides, observable_id, simulation)
    IN  [x \in DOMAIN with_obs \cup DOMAIN par_df |->
            IF x \in DOMAIN par_df THEN par_df[x][NOMINAL_VALUE]
            ELSE with_obs[x]]

\* the overrides that are parameter IDs are looked up in the parameter table
replace_parametric(overrides, par_df) ==
    IF \E k \in DOMAIN overrides :
          ~ IsNumber(overrides[k]) /\ overrides[k] \notin DOMAIN par_df
    THEN Raised("KeyError")
    ELSE Returned([k \in DOMAIN overrides |->
                      IF IsNumber(overrides[k]) THEN overrides[k]
                      ELSE par_df[overrides[k]][NOMINAL_VALUE]])

\* Expr.subs
subs(formula, overrides) ==
    Add([i \in 1..Len(formula.terms) |->
            IF formula.terms[i] \in DOMAIN overrides
            THEN overrides[formula.terms[i]]
            ELSE formula.terms[i]])

\* float(noise_value); its TypeError is turned into a ValueError
float_of(expr) ==
    IF \E i \in 1..Len(expr.terms) : ~ IsNumber(expr.terms[i])
    THEN Raised("ValueError")
    ELSE Returned(float_sum(expr.terms))

substitute(noise_formula, overrides) ==
    IF overrides.raised # "" THEN overrides
    ELSE IF noise_formula = None THEN Raised("AttributeError")
    ELSE float_of(subs(noise_formula, overrides.value))

placeholders_of(observable) ==
    stripped_nonempty(
        split(get(observable, OBSERVABLE_PLACEHOLDERS, EmptyStr).s,
              PARAMETER_SEPARATOR)
        \o split(get(observable, NOISE_PLACEHOLDERS, EmptyStr).s,
                 PARAMETER_SEPARATOR))

evaluate_overrides(observable_overrides, noise_overrides, noise_formula, observable_id, par_df, simulation, observable) ==
    IF observable_overrides.raised # "" THEN observable_overrides
    ELSE IF noise_overrides.raised # "" THEN noise_overrides
    ELSE substitute(
            noise_formula,
            replace_parametric(
                fill_in(zip_overrides(placeholders_of(observable),
                                      observable_overrides.value
                                          \o noise_overrides.value),
                        observable_id, simulation, par_df),
                par_df))

evaluate_noise_formula(measurement, noise_formulas, par_df, simulation, observable) ==
    evaluate_overrides(
        split_parameter_replacement_list(
            get(measurement, OBSERVABLE_PARAMETERS, None)),
        split_parameter_replacement_list(
            get(measurement, NOISE_PARAMETERS, None)),
        noise_formulas[measurement[OBSERVABLE_ID]],
        measurement[OBSERVABLE_ID], par_df, simulation, observable)

\* the noise distributions of version 2 name their transformation
NormalDistribution == Str(<<"n", "o", "r", "m", "a", "l">>)

LogNormalDistribution == Str(<<"l", "o", "g", "-">> \o NormalDistribution.s)

Log10LaplaceDistribution ==
    Str(<<"l", "o", "g", "1", "0", "-", "l", "a", "p", "l", "a", "c", "e">>)

\* a Python name is bound to a bool or to a function
Bool(b) == [t |-> "bool", v |-> b]

Function(name) == [t |-> "function", name |-> name]

truthy(x) == IF x.t = "bool" THEN x.v ELSE TRUE

\* `from petab.v1 import scale` binds the local name scale, which until
\* then held the argument of that name
import_scale(scale_argument) == Function("petab.v1.scale")

\* the rows of the simulation table that agree with the measurement in the
\* compared columns
matching_rows(sim_df, row, compared_cols) ==
    {j \in 1..Len(sim_df.rows) :
        \A col \in compared_cols :
            sim_df.rows[j][col] = row[col] \/ is_empty(row[col])}

find_simulation(sim_df, mask) ==
    IF mask = {} THEN Raised("ValueError")
    ELSE IF Cardinality(mask) > 1
            /\ Cardinality({sim_df.rows[j] : j \in mask}) > 1
    THEN Raised("ValueError")
    ELSE Returned(sim_df.rows[CHOOSE j \in mask : \A k \in mask : j <= k]
                      [SIMULATION])

trafo_of(noise_distr) ==
    IF startswith(noise_distr.s, <<"l", "o", "g", "-">>) THEN LOG
    ELSE IF startswith(noise_distr.s, <<"l", "o", "g", "1", "0", "-">>)
    THEN LOG10
    ELSE LIN

normalized(residual, normalize, noise_value) ==
    IF ~ normalize THEN Returned(residual)
    ELSE IF noise_value.raised # "" THEN noise_value
    ELSE Returned(Div(residual, noise_value.value))

scaled_residual(row, simulation, trafo, noise_formulas, par_df, normalize, observable) ==
    normalized(Sub(scale(row[MEASUREMENT], trafo).value,
                   scale(simulation, trafo).value),
               normalize,
               evaluate_noise_formula(row, noise_formulas, par_df, simulation,
                                      observable))

residual_of(row, simulation, obs_df, noise_formulas, par_df, normalize, scale_name) ==
    IF simulation.raised # "" THEN simulation
    ELSE IF ~ truthy(scale_name) THEN Raised("UnboundLocalError")
    ELSE IF row[OBSERVABLE_ID] \notin DOMAIN obs_df THEN Raised("KeyError")
    ELSE scaled_residual(
            row, simulation.value,
            trafo_of(get(obs_df[row[OBSERVABLE_ID]], NOISE_DISTRIBUTION,
                         NormalDistribution)),
            noise_formulas, par_df, normalize, obs_df[row[OBSERVABLE_ID]])

\* rename(columns={MEASUREMENT: RESIDUAL}) and the residual filled in
residual_row(row, residual) ==
    [c \in (DOMAIN row \ {MEASUREMENT}) \cup {RESIDUAL} |->
        IF c = RESIDUAL THEN residual ELSE row[c]]

residual_table(meas_df, residuals) ==
    IF \E i \in 1..Len(residuals) : residuals[i].raised # ""
    THEN residuals[CHOOSE i \in 1..Len(residuals) :
                      /\ residuals[i].raised # ""
                      /\ \A j \in 1..(i - 1) : residuals[j].raised = ""]
    ELSE Returned([columns |-> (meas_df.columns \ {MEASUREMENT}) \cup {RESIDUAL},
                   rows |-> [i \in 1..Len(residuals) |->
                                residual_row(meas_df.rows[i],
                                             residuals[i].value)]])

residuals_of_rows(meas_df, sim_df, obs_df, par_df, normalize, scale_name, compared_cols, noise_formulas) ==
    IF compared_cols = {} /\ meas_df.rows # <<>> THEN Raised("TypeError")
    ELSE residual_table(
            meas_df,
            [i \in 1..Len(meas_df.rows) |->
                residual_of(
                    meas_df.rows[i],
                    find_simulation(
                        sim_df,
                        matching_rows(sim_df, meas_df.rows[i], compared_cols)),
                    obs_df, noise_formulas, par_df, normalize, scale_name)])

calculate_residuals_for_table(meas_df, sim_df, obs_df, par_df, normalize, scale_argument) ==
    residuals_of_rows(meas_df, sim_df, obs_df, par_df, normalize,
                      import_scale(Bool(scale_argument)),
                      meas_df.columns \cap sim_df.columns,
                      get_symbolic_noise_formulas(obs_df))

---------------------------------------------------------------------------
(* the tables the residuals are computed from *)

MaxResidualRows == 2

n1 == Id("n", "1")

n2 == Id("n", "2")

a1 == Id("a", "1")

Sum(x, y) == Str(x.s \o <<"+">> \o y.s)

List(x, y) == Str(x.s \o <<PARAMETER_SEPARATOR>> \o y.s)

SymbolicNoiseFormulas ==
    {n1, n2, a1, o1, p1, k1, Sum(n1, n2), Sum(n1, o1), Str(<<"2">>)}

ObservableRows ==
    {[c \in {NOISE_FORMULA, OBSERVABLE_PLACEHOLDERS, NOISE_PLACEHOLDERS,
             NOISE_DISTRIBUTION} |->
         CASE c = NOISE_FORMULA -> f
           [] c = OBSERVABLE_PLACEHOLDERS -> op_
           [] c = NOISE_PLACEHOLDERS -> np_
           [] OTHER -> d] :
        f \in SymbolicNoiseFormulas, op_ \in {EmptyStr, a1}, np_ \in {n1, List(n1, n2)},
        d \in {NormalDistribution, LogNormalDistribution,
               Log10LaplaceDistribution}}

ResidualObservableTables == {[id \in {o1} |-> r] : r \in ObservableRows}

ResidualColumns ==
    {OBSERVABLE_ID, MEASUREMENT, OBSERVABLE_PARAMETERS, NOISE_PARAMETERS}

ResidualMeasurementRow(m, x, y) ==
    [c \in ResidualColumns |->
        CASE c = OBSERVABLE_ID -> o1
          [] c = MEASUREMENT -> m
          [] c = OBSERVABLE_PARAMETERS -> x
          [] OTHER -> y]

FirstRows ==
    {ResidualMeasurementRow(Float(2, 0), x, y) :
        x \in {NaN, Str(<<"1">>), p1},
        y \in {NaN, Str(<<"2">>), p2, List(Str(<<"2">>), p1)}}

FurtherRows == {ResidualMeasurementRow(Float(1, 0), Str(<<"1">>), p2)}

ResidualMeasurementTables ==
    {[columns |-> ResidualColumns, rows |-> <<r>> \o rest] :
        r \in FirstRows, rest \in SeqsUpTo(FurtherRows, MaxResidualRows - 1)}

SimulationRow(id, s) ==
    [c \in {OBSERVABLE_ID, SIMULATION} |-> IF c = OBSERVABLE_ID THEN id ELSE s]

SimulationTables ==
    {[columns |-> {OBSERVABLE_ID, SIMULATION}, rows |-> rows] :
        rows \in {<<SimulationRow(o1, Float(5, 0))>>,
                  <<SimulationRow(k1, Float(5, 0))>>,
                  <<SimulationRow(o1, Float(5, 0)),
                    SimulationRow(o1, Float(6, 0))>>}}

ResidualParameterTable ==
    [id \in {p1, p2} |->
        [c \in {NOMINAL_VALUE} |-> IF id = p1 THEN Float(3, 0) ELSE Float(4, 0)]]

InitResiduals ==
    /\ list_string = Unused
    /\ pool = Unused
    /\ condition = Unused
    /\ measurement_df \in ResidualMeasurementTables
    /\ observable_df \in ResidualObservableTables
    /\ \E sim_df \in SimulationTables, normalize \in BOOLEAN, flag \in BOOLEAN :
          problem = [parameter_df |-> ResidualParameterTable,
                     simulation_df |-> sim_df,
                     normalize |-> normalize,
                     scale |-> flag]
    /\ op = ""
    /\ ret = NotCalled

CallCalculateResidualsForTable ==
    /\ op = ""
    /\ op' = "calculate_residuals_for_table"
    /\ ret' = calculate_residuals_for_table(
                  measurement_df, problem.simulation_df, observable_df,
                  problem.parameter_df, problem.normalize, problem.scale)
    /\ UNCHANGED <<list_string, measurement_df, observable_df, condition,
                   problem, pool>>

\* the call of evaluate_noise_formula for one row of the measurement table
\* and a simulated value
CallEvaluateNoiseFormula ==
    /\ op = ""
    /\ \E i \in 1..Len(measurement_df.rows), simulation \in {Float(5, 0), Float(6, 0)} :
          /\ condition' = [measurement |-> measurement_df.rows[i],
                           simulation |-> simulation]
          /\ ret' = evaluate_noise_formula(
                        measurement_df.rows[i],
                        get_symbolic_noise_formulas(observable_df),
                        problem.parameter_df, simulation,
                        observable_df[measurement_df.rows[i][OBSERVABLE_ID]])
    /\ op' = "evaluate_noise_formula"
    /\ UNCHANGED <<list_string, measurement_df, observable_df, problem, pool>>

NextResiduals == CallCalculateResidualsForTable \/ CallEvaluateNoiseFormula

SpecResiduals == InitResiduals /\ [][NextResiduals]_vars

---------------------------------------------------------------------------
(* calculate_residuals_for_table: the residuals of a measurement table *)

SimulationsFor(row) ==
    {j \in 1..Len(problem.simulation_df.rows) :
        problem.simulation_df.rows[j][OBSERVABLE_ID] = row[OBSERVABLE_ID]}

HasOneSimulation(row) ==
    /\ SimulationsFor(row) # {}
    /\ Cardinality({problem.simulation_df.rows[j] : j \in SimulationsFor(row)}) = 1

SimulationFor(row) ==
    problem.simulation_df.rows[CHOOSE j \in SimulationsFor(row) : TRUE][SIMULATION]

NoiseValueFor(row) ==
    evaluate_noise_formula(row, get_symbolic_noise_formulas(observable_df),
                           problem.parameter_df, SimulationFor(row),
                           observable_df[row[OBSERVABLE_ID]])

OnNoiseScale(x, noise_distr) ==
    IF startswith(noise_distr.s, <<"l", "o", "g", "-">>) THEN Ln(x)
    ELSE IF startswith(noise_distr.s, <<"l", "o", "g", "1", "0", "-">>)
    THEN Log10(x)
    ELSE x

Difference(row, scaled) ==
    IF scaled
    THEN Sub(OnNoiseScale(row[MEASUREMENT],
                          observable_df[row[OBSERVABLE_ID]][NOISE_DISTRIBUTION]),
             OnNoiseScale(SimulationFor(row),
                          observable_df[row[OBSERVABLE_ID]][NOISE_DISTRIBUTION]))
    ELSE Sub(row[MEASUREMENT], SimulationFor(row))

ResidualFor(row, scaled) ==
    IF problem.normalize
    THEN Div(Difference(row, scaled), NoiseValueFor(row).value)
    ELSE Difference(row, scaled)

Computable ==
    \A i \in 1..Len(measurement_df.rows) :
        /\ HasOneSimulation(measurement_df.rows[i])
        /\ problem.normalize => NoiseValueFor(measurement_df.rows[i]).raised = ""

ResidualsAre(scaled) ==
    /\ ret.raised = ""
    /\ ret.value.columns = (measurement_df.columns \ {MEASUREMENT}) \cup {RESIDUAL}
    /\ Len(ret.value.rows) = Len(measurement_df.rows)
    /\ \A i \in 1..Len(measurement_df.rows) :
          ret.value.rows[i] =
              residual_row(measurement_df.rows[i],
                           ResidualFor(measurement_df.rows[i], scaled))

\* C15: calculate_residuals_for_table returns, for every combination of the
\* flags normalize and scale, the table of the residuals measurement minus
\* matching simulation: taken on the scale of the observable's noise
\* distribution when scale is true and on the unscaled values when it is
\* false, divided by the noise value of the row when normalize is true
C15_ResidualsFollowFlags ==
    op = "calculate_residuals_for_table" /\ Computable
        => ResidualsAre(problem.scale)

---------------------------------------------------------------------------
(* evaluate_noise_formula: what the symbols of the formula are replaced by *)

EntriesOf(column) ==
    split_parameter_replacement_list(condition.measurement[column]).value

PlaceholdersOf(column) ==
    stripped_nonempty(
        split(observable_df[condition.measurement[OBSERVABLE_ID]][column].s,
              PARAMETER_SEPARATOR))

NominalValueOf(x) ==
    IF IsNumber(x) THEN x ELSE problem.parameter_df[x][NOMINAL_VALUE]

EntryFor(symbol, placeholders, entries) ==
    NominalValueOf(entries[CHOOSE i \in 1..Len(placeholders) :
                              placeholders[i] = symbol])

HasEntryFor(symbol, placeholders, entries) ==
    \E i \in 1..Len(placeholders) :
        placeholders[i] = symbol /\ i <= Len(entries)

Substituted(symbol) ==
    IF symbol \in DOMAIN problem.parameter_df
    THEN problem.parameter_df[symbol][NOMINAL_VALUE]
    ELSE IF symbol = condition.measurement[OBSERVABLE_ID]
    THEN condition.simulation
    ELSE IF HasEntryFor(symbol, PlaceholdersOf(NOISE_PLACEHOLDERS),
                        EntriesOf(NOISE_PARAMETERS))
    THEN EntryFor(symbol, PlaceholdersOf(NOISE_PLACEHOLDERS),
                  EntriesOf(NOISE_PARAMETERS))
    ELSE IF HasEntryFor(symbol, PlaceholdersOf(OBSERVABLE_PLACEHOLDERS),
                        EntriesOf(OBSERVABLE_PARAMETERS))
    THEN EntryFor(symbol, PlaceholdersOf(OBSERVABLE_PLACEHOLDERS),
                  EntriesOf(OBSERVABLE_PARAMETERS))
    ELSE symbol

NoiseFormulaOf(row) ==
    sympify_petab(observable_df[row[OBSERVABLE_ID]][NOISE_FORMULA])

\* C19: evaluate_noise_formula returns the noise formula with the i-th noise
\* placeholder replaced by the i-th noiseParameters entry of the row and the
\* i-th observable placeholder by its i-th observableParameters entry
\* (an entry that is a parameter ID by that parameter's nominal value), the
\* observable ID by the simulation and every parameter by its nominal value,
\* however many observableParameters entries the row has; it raises a
\* ValueError when a symbol of the formula is left
C19_PlaceholdersByPosition ==
    op = "evaluate_noise_formula"
        => ret = float_of(Add([i \in 1..Len(NoiseFormulaOf(condition.measurement).terms) |->
                                  Substituted(NoiseFormulaOf(condition.measurement).terms[i])]))


---------------------------------------------------------------------------
(* v2 core: the containers and their operators + and += *)

\* the containers are objects on a heap, so that `in place' and `a new
\* container' can be told apart; items stands for the list field of the class
\* (periods, conditions, observables)
Object(cls, id, items) == [cls |-> cls, id |-> id, items |-> items]

\* the class of the elements a container holds
element_type(cls) ==
    CASE cls = "Experiment" -> "ExperimentPeriod"
      [] cls = "ConditionTable" -> "Condition"
      [] cls = "ObservableTable" -> "Observable"

isinstance(obj, cls) == "cls" \in DOMAIN obj /\ obj.cls = cls

\* the mutant: + appends to the list of self and returns self
add_in_place(heap, x, other) ==
    IF ~ isinstance(other, element_type(heap[x].cls))
    THEN [heap |-> heap, result |-> Raised("TypeError")]
    ELSE [heap |-> [heap EXCEPT ![x].items = Append(@, other)],
          result |-> Returned(x)]

\* __add__: a new container of the class of self
add(heap, x, other) ==
    IF ~ isinstance(other, element_type(heap[x].cls))
    THEN [heap |-> heap, result |-> Raised("TypeError")]
    ELSE [heap |-> Append(heap, Object(heap[x].cls, heap[x].id,
                                       heap[x].items \o <<other>>)),
          result |-> Returned(Len(heap) + 1)]

\* __iadd__: self with other appended to its list
iadd(heap, x, other) ==
    IF ~ isinstance(other, element_type(heap[x].cls))
    THEN [heap |-> heap, result |-> Raised("TypeError")]
    ELSE [heap |-> [heap EXCEPT ![x].items = Append(@, other)],
          result |-> Returned(x)]

\* Experiment(id=...), ConditionTable(), ObservableTable(observables=[])
construct(heap, cls) ==
    [heap |-> Append(heap, Object(cls,
                                  IF cls = "Experiment" THEN Id("a", "1")
                                  ELSE None,
                                  <<>>)),
     result |-> Returned(Len(heap) + 1)]

MaxObjects == 2

MaxItems == 2

ContainerClasses == {"Experiment", "ConditionTable", "ObservableTable"}

ExperimentPeriod(time, condition_id) ==
    [cls |-> "ExperimentPeriod", time |-> time, condition_id |-> condition_id]

Condition(id, changes) == [cls |-> "Condition", id |-> id, changes |-> changes]

Observable(id, name, formula, transformation, noise_formula, noise_distribution) ==
    [cls |-> "Observable", id |-> id, name |-> name, formula |-> formula,
     transformation |-> transformation, noise_formula |-> noise_formula,
     noise_distribution |-> noise_distribution]

\* what is added to a container: elements of every class and a str
Operands ==
    {ExperimentPeriod(Float(0, 0), c1), ExperimentPeriod(Float(1, 0), c2),
     Condition(c1, <<>>), Condition(c2, <<>>),
     Observable(o1, None, None, LIN, None, NormalDistribution),
     Str(<<"a">>)}

InitContainers ==
    /\ list_string = Unused
    /\ measurement_df = Unused
    /\ observable_df = Unused
    /\ pool = Unused
    /\ condition = Unused
    /\ problem = [heap |-> <<>>]
    /\ op = ""
    /\ ret = NotCalled

done(name, operands, outcome) ==
    /\ op' = name
    /\ condition' = operands
    /\ problem' = [heap |-> outcome.heap]
    /\ ret' = outcome.result
    /\ UNCHANGED <<list_string, measurement_df, observable_df, pool>>

Construct ==
    /\ Len(problem.heap) < MaxObjects
    /\ \E cls \in ContainerClasses :
          done("init", Unused, construct(problem.heap, cls))

CallIAdd ==
    \E x \in DOMAIN problem.heap, other \in Operands :
        /\ Len(problem.heap[x].items) < MaxItems
        /\ done("iadd", [x |-> x, other |-> other],
                iadd(problem.heap, x, other))

CallAdd ==
    \E x \in DOMAIN problem.heap, other \in Operands :
        /\ Len(problem.heap[x].items) < MaxItems
        /\ Len(problem.heap) < MaxObjects
        /\ done("add", [x |-> x, other |-> other],
                add(problem.heap, x, other))

NextContainers == Construct \/ CallIAdd \/ CallAdd

SpecContainers == InitContainers /\ [][NextContainers]_vars

RightType ==
    isinstance(condition'.other, element_type(problem.heap[condition'.x].cls))

OthersUnchanged ==
    \A r \in DOMAIN problem.heap : problem'.heap[r] = problem.heap[r]

AppendedInPlace ==
    /\ ret' = Returned(condition'.x)
    /\ problem'.heap =
          [problem.heap EXCEPT ![condition'.x].items = Append(@, condition'.other)]

NewContainer ==
    /\ ret'.raised = ""
    /\ ret'.value \in DOMAIN problem'.heap \ DOMAIN problem.heap
    /\ problem'.heap[ret'.value].cls = problem.heap[condition'.x].cls
    /\ problem'.heap[ret'.value].items =
          problem.heap[condition'.x].items \o <<condition'.other>>
    /\ OthersUnchanged

\* C16: x += e appends e as the last element of x in place, x + e returns a
\* new container of x's elements followed by e and leaves x as it was, a
\* newly constructed Experiment or ConditionTable is empty, and an operand of
\* the wrong type raises TypeError and leaves x unchanged
C16_AddAndIAdd ==
    [][/\ op' = "init" =>
            /\ ret'.value \in DOMAIN problem'.heap \ DOMAIN problem.heap
            /\ problem'.heap[ret'.value].items = <<>>
            /\ OthersUnchanged
       /\ op' = "iadd" /\ RightType => AppendedInPlace
       /\ op' = "add" /\ RightType => NewContainer
       /\ op' \in {"iadd", "add"} /\ ~ RightType =>
            /\ ret' = Raised("TypeError")
            /\ problem'.heap = problem.heap]_vars

C16_Witness ==
    /\ op = "add"
    /\ ret.raised = ""
    /\ ret.value # condition.x
    /\ problem.heap[condition.x].cls \in {"Experiment", "ConditionTable"}
    /\ Len(problem.heap[condition.x].items) = 1
    /\ Len(problem.heap[ret.value].items) = 2


---------------------------------------------------------------------------
(* v2 core: tables written to TSV files and read back *)

CONDITION_ID == "conditionId"

TARGET_ID == "targetId"

TARGET_VALUE == "targetValue"

OBSERVABLE_NAME == "observableName"

\* a Python float has one representation: no trailing zero in the fraction
RECURSIVE canonical(_)
canonical(x) ==
    IF x.t = "float" /\ x.exp > 0 /\ x.num % 10 = 0
    THEN canonical(Float(x.num \div 10, x.exp - 1))
    ELSE x

DigitChar(d) ==
    CASE d = 0 -> "0" [] d = 1 -> "1" [] d = 2 -> "2" [] d = 3 -> "3"
      [] d = 4 -> "4" [] d = 5 -> "5" [] d = 6 -> "6" [] d = 7 -> "7"
      [] d = 8 -> "8" [] d = 9 -> "9"

RECURSIVE IntDigits(_)
IntDigits(n) ==
    IF n < 10 THEN <<DigitChar(n)>>
    ELSE Append(IntDigits(n \div 10), DigitChar(n % 10))

\* the last k digits of n
RECURSIVE FractionDigits(_, _)
FractionDigits(n, k) ==
    IF k = 0 THEN <<>>
    ELSE Append(FractionDigits(n \div 10, k - 1), DigitChar(n % 10))

\* repr(float): the text to_csv writes for a float
repr_float(x) ==
    IF x.exp = 0 THEN IntDigits(x.num) \o <<".", "0">>
    ELSE IntDigits(x.num \div Pow10(x.exp)) \o <<".">>
             \o FractionDigits(x.num, x.exp)

\* Expr.is_number
is_number(expr) == \A i \in 1..Len(expr.terms) : expr.terms[i].t = "float"

\* float(expr) of a number
float_expr(expr) == canonical(float_sum(expr.terms))

\* str of a term: sympy prints a power with '**'
RECURSIVE power_as_stars(_)
power_as_stars(s) ==
    IF s = <<>> THEN <<>>
    ELSE (IF Head(s) = "^" THEN <<"*", "*">> ELSE <<Head(s)>>)
             \o power_as_stars(Tail(s))

str_term(term) ==
    IF term.t = "float" THEN repr_float(term) ELSE power_as_stars(term.s)

\* str(expr)
RECURSIVE str_terms(_)
str_terms(terms) ==
    IF Len(terms) = 1 THEN str_term(terms[1])
    ELSE str_terms(SubSeq(terms, 1, Len(terms) - 1)) \o <<" ", "+", " ">>
             \o str_term(terms[Len(terms)])

str_expr(expr) == Str(str_terms(expr.terms))

\* '**' is no operator of the PEtab math language
has_double_star(s) == \E i \in 1..(Len(s) - 1) : s[i] = "*" /\ s[i + 1] = "*"

canonical_terms(expr) ==
    Add([i \in 1..Len(expr.terms) |-> canonical(expr.terms[i])])

\* Observable._sympify, Change._sympify: the field validator of formulas
_sympify(v) ==
    IF v = None \/ v.t = "expr" THEN Returned(v)
    ELSE IF v = NaN THEN Returned(None)
    ELSE IF v.t = "float" THEN Returned(Add(<<v>>))
    ELSE IF has_double_star(v.s) THEN Raised("ValueError")
    ELSE Returned(canonical_terms(sympify_petab(v)))

\* Observable._convert_nan_to_default
_convert_nan_to_default(v, default) == IF v = NaN THEN default ELSE v

\* the value a formula has in the data frame
formula_cell(expr) ==
    IF expr = None THEN None
    ELSE IF is_number(expr) THEN float_expr(expr)
    ELSE str_expr(expr)

\* DataFrame.to_csv: the text of a cell
csv_text(v) ==
    IF isnull(v) THEN <<>>
    ELSE IF v.t = "float" THEN repr_float(v)
    ELSE v.s

to_csv(df) ==
    [columns |-> df.columns,
     rows |-> [i \in 1..Len(df.rows) |->
                  [c \in df.columns |-> csv_text(df.rows[i][c])]]]

\* read_csv reads a column as floats when every value of it is a number
numeric_column(file, c) ==
    \A i \in 1..Len(file.rows) :
        file.rows[i][c] = <<>> \/ ParsesAsFloat(file.rows[i][c])

read_cell(text, numeric) ==
    IF text = <<>> \/ text = <<"n", "a", "n">> THEN NaN
    ELSE IF numeric THEN canonical(FloatOfStr(text))
    ELSE Str(text)

read_csv(file) ==
    [columns |-> file.columns,
     rows |-> [i \in 1..Len(file.rows) |->
                  [c \in file.columns |->
                      read_cell(file.rows[i][c], numeric_column(file, c))]]]

\* the first failure of a list of results, or the list of their values
collected(results) ==
    IF \E i \in 1..Len(results) : results[i].raised # ""
    THEN Raised("ValidationError")
    ELSE Returned([i \in 1..Len(results) |-> results[i].value])

(* ConditionTable *)

Change(target_id, target_value) ==
    [cls |-> "Change", target_id |-> target_id, target_value |-> target_value]

change_record(condition_id, change) ==
    [c \in {CONDITION_ID, TARGET_ID, TARGET_VALUE} |->
        CASE c = CONDITION_ID -> condition_id
          [] c = TARGET_ID -> change.target_id
          [] OTHER -> formula_cell(change.target_value)]

RECURSIVE condition_records(_)
condition_records(conditions) ==
    IF conditions = <<>> THEN <<>>
    ELSE [i \in 1..Len(Head(conditions).changes) |->
             change_record(Head(conditions).id, Head(conditions).changes[i])]
         \o condition_records(Tail(conditions))

\* ConditionTable.to_df
condition_to_df(conditions) ==
    [columns |-> {CONDITION_ID, TARGET_ID, TARGET_VALUE},
     rows |-> condition_records(conditions)]

\* the keys of df.groupby(CONDITION_ID), which sorts them
RECURSIVE sorted_keys(_)
sorted_keys(keys) ==
    IF keys = {} THEN <<>>
    ELSE LET first == CHOOSE k \in keys :
                          \A other \in keys \ {k} : SeqLess(k.s, other.s)
         IN  <<first>> \o sorted_keys(keys \ {first})

group_of(df, key) == SelectSeq(df.rows, LAMBDA row : row[CONDITION_ID] = key)

\* Change(**row)
change_of(row, value) ==
    IF value.raised # "" \/ value.value = None
       \/ ~ is_valid_identifier(row[TARGET_ID])
    THEN Raised("ValidationError")
    ELSE Returned(Change(row[TARGET_ID], value.value))

condition_of(key, changes) ==
    IF changes.raised # "" \/ ~ is_valid_identifier(key)
    THEN Raised("ValidationError")
    ELSE Returned(Condition(key, changes.value))

changes_of(rows) ==
    collected([i \in 1..Len(rows) |->
                  change_of(rows[i], _sympify(rows[i][TARGET_VALUE]))])

conditions_of(df, keys) ==
    collected([i \in 1..Len(keys) |->
                  condition_of(keys[i], changes_of(group_of(df, keys[i])))])

\* ConditionTable.from_df
condition_from_df(df) ==
    IF df.rows = <<>> THEN Returned(<<>>)
    ELSE conditions_of(df, sorted_keys({df.rows[i][CONDITION_ID] :
                                           i \in 1..Len(df.rows)}))

(* ObservableTable *)

LinTransformation == Str(<<"l", "i", "n">>)

Log10Transformation == Str(<<"l", "o", "g", "1", "0">>)

LaplaceDistribution == Str(<<"l", "a", "p", "l", "a", "c", "e">>)

ObservableColumns ==
    {OBSERVABLE_ID, OBSERVABLE_NAME, OBSERVABLE_FORMULA,
     OBSERVABLE_TRANSFORMATION, NOISE_FORMULA, NOISE_DISTRIBUTION}

observable_record(observable) ==
    [c \in ObservableColumns |->
        CASE c = OBSERVABLE_ID -> observable.id
          [] c = OBSERVABLE_NAME -> observable.name
          [] c = OBSERVABLE_FORMULA -> formula_cell(observable.formula)
          [] c = OBSERVABLE_TRANSFORMATION -> observable.transformation
          [] c = NOISE_FORMULA -> formula_cell(observable.noise_formula)
          [] OTHER -> observable.noise_distribution]

\* ObservableTable.to_df: set_index raises KeyError when there is no record
\* and so no column OBSERVABLE_ID
observable_to_df(observables) ==
    IF observables = <<>> THEN Raised("KeyError")
    ELSE Returned([columns |-> ObservableColumns,
                   rows |-> [i \in 1..Len(observables) |->
                                observable_record(observables[i])]])

enum_of(v, members) ==
    IF v \in members THEN Returned(v) ELSE Raised("ValidationError")

validated_observable(row, formula, noise_formula, transformation, noise_distribution) ==
    IF \/ formula.raised # "" \/ noise_formula.raised # ""
       \/ transformation.raised # "" \/ noise_distribution.raised # ""
       \/ row[OBSERVABLE_ID].t # "str"
       \/ ~ is_valid_identifier(row[OBSERVABLE_ID])
       \/ _convert_nan_to_default(row[OBSERVABLE_NAME], None).t \notin {"str", "None"}
    THEN Raised("ValidationError")
    ELSE Returned(Observable(row[OBSERVABLE_ID],
                             _convert_nan_to_default(row[OBSERVABLE_NAME], None),
                             formula.value, transformation.value,
                             noise_formula.value, noise_distribution.value))

\* Observable(**row.to_dict())
observable_of(row) ==
    validated_observable(
        row,
        _sympify(_convert_nan_to_default(row[OBSERVABLE_FORMULA], None)),
        _sympify(_convert_nan_to_default(row[NOISE_FORMULA], None)),
        enum_of(_convert_nan_to_default(row[OBSERVABLE_TRANSFORMATION],
                                        LinTransformation),
                {LinTransformation, Str(<<"l", "o", "g">>), Log10Transformation}),
        enum_of(_convert_nan_to_default(row[NOISE_DISTRIBUTION],
                                        NormalDistribution),
                {NormalDistribution, LaplaceDistribution}))

\* ObservableTable.from_df
observable_from_df(df) ==
    collected([i \in 1..Len(df.rows) |-> observable_of(df.rows[i])])

(* to_tsv and from_tsv of both tables *)

to_df(table) ==
    IF table.cls = "ConditionTable" THEN Returned(condition_to_df(table.items))
    ELSE observable_to_df(table.items)

written(df) == IF df.raised # "" THEN df ELSE Returned(to_csv(df.value))

to_tsv(table) == written(to_df(table))

table_of(cls, items) ==
    IF items.raised # "" THEN items
    ELSE Returned(Object(cls, None, items.value))

from_df(cls, df) ==
    table_of(cls, IF cls = "ConditionTable" THEN condition_from_df(df)
                  ELSE observable_from_df(df))

from_tsv(cls, file) == from_df(cls, read_csv(file))

(* the tables that are written and read back *)

MaxTableItems == 2

MaxChanges == 2

o2 == Id("o", "2")

Power(base, exponent) == Str(base.s \o <<"^">> \o exponent)

\* a number, a number with a fraction, a symbol, a power
Expressions ==
    {Add(<<Float(2, 0)>>), Add(<<Float(12, 1)>>), Add(<<k1>>),
     Add(<<Power(k1, <<"2">>)>>)}

TableChanges ==
    {Change(k1, Add(<<Float(2, 0)>>)), Change(p1, Add(<<k1>>)),
     Change(k1, Add(<<Power(k1, <<"2">>)>>))}

TableConditions ==
    {Condition(id, changes) :
        id \in {c1, c2}, changes \in SeqsUpTo(TableChanges, MaxChanges)}

\* the observable of the defaults with one field set
TableObservables ==
    UNION {{Observable(id, None, None, LinTransformation, None, NormalDistribution),
            Observable(id, Str(<<"a">>), None, LinTransformation, None, NormalDistribution),
            Observable(id, None, None, Log10Transformation, None, NormalDistribution),
            Observable(id, None, None, LinTransformation, None, LaplaceDistribution),
            Observable(id, None, None, LinTransformation, Add(<<p1>>), NormalDistribution)}
           \cup {Observable(id, None, e, LinTransformation, None, NormalDistribution) :
                    e \in Expressions}
           \cup {Observable(id, None, Add(<<k1>>), LinTransformation, e, NormalDistribution) :
                    e \in Expressions} :
           id \in {o1, o2}}

Elements(cls) == IF cls = "ConditionTable" THEN TableConditions ELSE TableObservables

InitRoundTrip ==
    /\ list_string = Unused
    /\ measurement_df = Unused
    /\ observable_df = Unused
    /\ pool = Unused
    /\ condition = Unused
    /\ \E cls \in {"ConditionTable", "ObservableTable"} :
          problem = [heap |-> construct(<<>>, cls).heap, file |-> None]
    /\ op = ""
    /\ ret = NotCalled

\* table += element, for the table under construction
AddElement ==
    /\ op \in {"", "iadd"}
    /\ Len(problem.heap[1].items) < MaxTableItems
    /\ \E other \in Elements(problem.heap[1].cls) :
          /\ problem' = [problem EXCEPT !.heap = iadd(problem.heap, 1, other).heap]
          /\ ret' = iadd(problem.heap, 1, other).result
    /\ op' = "iadd"
    /\ UNCHANGED <<list_string, measurement_df, observable_df, condition, pool>>

wrote(file) ==
    /\ op' = "to_tsv"
    /\ ret' = IF file.raised # "" THEN file ELSE Returned(None)
    /\ problem' = [problem EXCEPT !.file = file.value]
    /\ UNCHANGED <<list_string, measurement_df, observable_df, condition, pool>>

CallToTsv ==
    /\ op \in {"", "iadd"}
    /\ wrote(to_tsv(problem.heap[1]))

CallFromTsv ==
    /\ op = "to_tsv"
    /\ ret.raised = ""
    /\ op' = "from_tsv"
    /\ ret' = from_tsv(problem.heap[1].cls, problem.file)
    /\ UNCHANGED <<list_string, measurement_df, observable_df, condition,
                   problem, pool>>

NextRoundTrip == AddElement \/ CallToTsv \/ CallFromTsv

SpecRoundTrip == InitRoundTrip /\ [][NextRoundTrip]_vars

RoundTrip(cls) ==
    /\ op = "to_tsv" /\ problem.heap[1].cls = cls => ret.raised = ""
    /\ op = "from_tsv" /\ problem.heap[1].cls = cls
          => ret = Returned(problem.heap[1])

\* C17: a ConditionTable built with the constructor and +=, written with
\* to_tsv and read back with from_tsv, is equal to the original: the same
\* conditions in the same order, each with the same changes in the same order
C17_ConditionTableRoundTrip == RoundTrip("ConditionTable")

\* C18: an ObservableTable written with to_tsv and read back with from_tsv
\* is equal to the original: the same observables in the same order with
\* equal IDs, names, formulas, noise formulas, transformations and noise
\* distributions; a missing formula stays missing, a numeric one the same
\* number
C18_ObservableTableRoundTrip == RoundTrip("ObservableTable")

===========================================================================
